---- MODULE Spec2Model ----
(***************************************************************************)
(* A model of mcp-gsuite: the call-tool dispatcher of MCPGoogleSuiteServer *)
(* (src/src/server.ts) with the zod input schemas (src/src/types/          *)
(* schemas.ts), and the OAuth credential lifecycle of AuthService          *)
(* (src/unnamed/part_003, lines 1-186).                                    *)
(***************************************************************************)
EXTENDS Integers, Sequences, FiniteSets, TLC

VARIABLES
  \* ---- call-tool handler (server.ts, setupCallTool) ----
  dpc,           \* "idle" | "awaiting" (adapter promise pending) | "returned" | "escaped"
  request,       \* request.params: [name, arguments]
  parsed,        \* the input the schema's parse() produced, NoInput before
  adapterCalls,  \* adapter methods invoked by the current call
  apiCalls,      \* external API requests sent by the current call
  catches,       \* times the handler's catch block ran in the current call
  thrown,        \* the value the catch block received, NoError when nothing was thrown
  adapterError,  \* what the adapter call threw or rejected with, NoError when it did not
  response,      \* the value the handler returned, NoResponse before
  \* ---- AuthService (part_003) and its files ----
  auth,          \* this.auth: an OAuth2Client [id, credentials]; id 0 is null
  credentials,   \* this.credentials: a Credentials record; isNull is null
  credFile,      \* file at credentialsPath: [state: "absent"|"present", text]
  oauthFile,     \* file at oauthPath: "absent" | "corrupt" | "ok"
  now,           \* Date.now()
  apc,           \* per caller: position inside the running AuthService operation
  op,            \* per caller: the operation running ("authenticate", ...)
  local,         \* per caller: locals of the suspended operation
  outcome,       \* per caller: what the finished operation returned or threw
  hist,          \* per caller: what the running call has done (refreshes, writes, entry state)
  \* ---- the process (index.ts, main) ----
  argv,          \* process.argv after the script path
  process,       \* [exited, code]: whether process.exit() was called, and with what
  server,        \* "none" | "connecting" | "connected" | "failed": MCPGoogleSuiteServer on stdio
  \* ---- one call of a service method or resource handler ----
  svcFn,         \* the method called
  svcPc,         \* "called" | the await it is suspended at | "done"
  svcArg,        \* its argument
  svcLocal,      \* its locals that live across an await
  svcApi,        \* the Google API requests it has sent, in order
  svcResult      \* what it returned

dispatchVars ==
  <<dpc, request, parsed, adapterCalls, apiCalls, catches, thrown, adapterError, response>>
authVars == <<auth, credentials, credFile, oauthFile, now, apc, op, local, outcome, hist>>
mainVars == <<argv, process, server>>
serviceVars == <<svcFn, svcPc, svcArg, svcLocal, svcApi, svcResult>>
nonAuthVars == <<dispatchVars, mainVars, serviceVars>>
nonDispatchVars == <<authVars, mainVars, serviceVars>>
vars == <<dispatchVars, authVars, mainVars, serviceVars>>

NoValue == "none"
NoInput == [k \in {} |-> "undefined"]

(***************************************************************************)
(* Tool input schemas (schemas.ts 62-215).  A field is [type, required,    *)
(* hasDefault]; an argument value is abstracted to the class of JS values  *)
(* the field's validator tells apart.                                      *)
(***************************************************************************)
Fld(t, req) == [type |-> t, required |-> req, hasDefault |-> FALSE]
Dflt(t) == [type |-> t, required |-> FALSE, hasDefault |-> TRUE]

SearchInputSchema == [query |-> Fld("string", TRUE), page_size |-> Dflt("number")]
CreateDocInputSchema == [title |-> Fld("string", TRUE)]
GetDocContentInputSchema == [document_id |-> Fld("string", TRUE)]
UpdateDocContentInputSchema ==
  [document_id |-> Fld("string", TRUE), requests |-> Fld("anyarray", TRUE)]
CreateSpreadsheetSchema == [title |-> Fld("string", TRUE), sheets |-> Fld("array", FALSE)]
UpdateValuesSchema ==
  [spreadsheetId |-> Fld("string", TRUE), range |-> Fld("string", TRUE),
   values |-> Fld("array", TRUE), majorDimension |-> Fld("enum", FALSE)]
FormatCellsSchema ==
  [spreadsheetId |-> Fld("string", TRUE), range |-> Fld("string", TRUE),
   format |-> Fld("object", TRUE)]
\* Variant of DimensionOperationSchema that requires size.
DimensionOperationSchema_SizeRequired ==
  [spreadsheetId |-> Fld("string", TRUE), sheetId |-> Fld("number", TRUE),
   dimension |-> Fld("enum", TRUE), startIndex |-> Fld("number", TRUE),
   endIndex |-> Fld("number", FALSE), operation |-> Fld("enum", TRUE),
   size |-> Fld("number", TRUE)]
DimensionOperationSchema ==
  [spreadsheetId |-> Fld("string", TRUE), sheetId |-> Fld("number", TRUE),
   dimension |-> Fld("enum", TRUE), startIndex |-> Fld("number", TRUE),
   endIndex |-> Fld("number", FALSE), operation |-> Fld("enum", TRUE),
   size |-> Fld("number", FALSE)]
MergeCellsSchema == [spreadsheetId |-> Fld("string", TRUE), range |-> Fld("string", TRUE)]
GetValuesSchema ==
  [spreadsheetId |-> Fld("string", TRUE), range |-> Fld("string", TRUE),
   majorDimension |-> Fld("enum", FALSE)]
CreateFolderSchema ==
  [name |-> Fld("string", TRUE), parents |-> Fld("array", FALSE),
   description |-> Fld("string", FALSE)]
CreateFileSchema ==
  [name |-> Fld("string", TRUE), mimeType |-> Fld("string", TRUE),
   parents |-> Fld("array", FALSE), description |-> Fld("string", FALSE),
   content |-> Fld("content", TRUE)]
UpdateFileSchema ==
  [fileId |-> Fld("string", TRUE), content |-> Fld("content", TRUE),
   mimeType |-> Fld("string", TRUE)]
GetFileSchema == [fileId |-> Fld("string", TRUE), fields |-> Fld("string", FALSE)]
ListFilesSchema ==
  [query |-> Fld("string", FALSE), pageSize |-> Fld("number", FALSE),
   fields |-> Fld("string", FALSE), orderBy |-> Fld("string", FALSE)]
UpdateFileMetadataSchema ==
  [fileId |-> Fld("string", TRUE), name |-> Fld("string", FALSE),
   description |-> Fld("string", FALSE), mimeType |-> Fld("string", FALSE),
   addParents |-> Fld("array", FALSE), removeParents |-> Fld("array", FALSE)]

\* The switch of setupCallTool: which schema parses the arguments of which tool.
ToolSchema ==
  [search |-> SearchInputSchema,
   drive_create_folder |-> CreateFolderSchema,
   drive_create_file |-> CreateFileSchema,
   drive_update_file |-> UpdateFileSchema,
   drive_get_file |-> GetFileSchema,
   drive_list_files |-> ListFilesSchema,
   drive_update_metadata |-> UpdateFileMetadataSchema,
   docs_create |-> CreateDocInputSchema,
   docs_get_content |-> GetDocContentInputSchema,
   docs_update_content |-> UpdateDocContentInputSchema,
   sheets_create |-> CreateSpreadsheetSchema,
   sheets_update_values |-> UpdateValuesSchema,
   sheets_format_cells |-> FormatCellsSchema,
   sheets_dimension_operation |-> DimensionOperationSchema,
   sheets_merge_cells |-> MergeCellsSchema,
   sheets_get_values |-> GetValuesSchema]

\* The case labels of the switch: the fixed catalog.
Catalog == DOMAIN ToolSchema

\* Tool names outside the catalog that a client may send.
UnknownTools == {"", "Search", "drive_delete_file", "docs_create "}
ToolNames == Catalog \cup UnknownTools

\* request.params.arguments that is not a JSON object (absent, null, a string).
NotObject == [isObject |-> FALSE, fields |-> [k \in {} |-> "undefined"]]
Object(fields) == [isObject |-> TRUE, fields |-> fields]

\* Value classes of an argument: "undefined" is an absent key; "enum" a string
\* that is a member of the field's enumeration; "badarray"/"badobject" an
\* array/object with a member the field's element or shape validator rejects.
ValueClasses ==
  {"undefined", "string", "number", "boolean", "enum", "array", "object",
   "badarray", "badobject"}

\* zod's validators: z.string(), z.number(), z.enum([...]), z.array(T),
\* z.array(z.any()), z.object({...}), z.union([z.string(), z.instanceof(Buffer)]).
Accepts(type, v) ==
  CASE type = "string"   -> v \in {"string", "enum"}
    [] type = "number"   -> v = "number"
    [] type = "boolean"  -> v = "boolean"
    [] type = "enum"     -> v = "enum"
    [] type = "array"    -> v = "array"
    [] type = "anyarray" -> v \in {"array", "badarray"}
    [] type = "object"   -> v = "object"
    [] type = "content"  -> v \in {"string", "enum"}
    [] OTHER             -> FALSE

\* .optional() and .default(x) accept undefined; a plain validator does not.
FieldOk(f, v) ==
  IF v = "undefined" THEN (~f.required) ELSE Accepts(f.type, v)

\* What parse() puts in its output for a key: the value, or the default.
FieldOut(f, v) ==
  IF v = "undefined" /\ f.hasDefault THEN f.type ELSE v

ArgOf(args, k) == IF k \in DOMAIN args.fields THEN args.fields[k] ELSE "undefined"

ParseFails(schema, args) ==
  \/ ~args.isObject
  \/ \E k \in DOMAIN schema : ~FieldOk(schema[k], ArgOf(args, k))

\* Schema.parse(arguments): throws a ZodError, or returns the schema's keys
\* (unknown keys are stripped, defaults filled in).
Parse(schema, args) ==
  IF ParseFails(schema, args)
  THEN [ok |-> FALSE, input |-> NoInput]
  ELSE [ok |-> TRUE,
        input |-> [k \in DOMAIN schema |-> FieldOut(schema[k], ArgOf(args, k))]]

\* ---- the argument records the model sends ----
GoodValue(type) ==
  CASE type = "content" -> "string" [] type = "anyarray" -> "array" [] OTHER -> type
BadValue(type) ==
  CASE type = "string" -> "number"
    [] type = "number" -> "string"
    [] type = "boolean" -> "string"
    [] type = "enum" -> "string"
    [] type = "array" -> "badarray"
    [] type = "anyarray" -> "object"
    [] type = "object" -> "badobject"
    [] type = "content" -> "number"
    [] OTHER -> "undefined"
Candidate(type, i) ==
  CASE i = 0 -> "undefined" [] i = 1 -> GoodValue(type) [] OTHER -> BadValue(type)

\* Keys a client may send that the dispatcher's schema does not name.
ExtraKeys(name) ==
  IF name \in {"docs_create", "docs_update_content"} THEN {"content"}
  ELSE IF name \in UnknownTools THEN {"query"} ELSE {}

ArgumentsFor(name) ==
  LET schema == IF name \in Catalog THEN ToolSchema[name] ELSE <<>>
      keys == DOMAIN schema \cup ExtraKeys(name)
      typeOf(k) == IF k \in DOMAIN schema THEN schema[k].type ELSE "object"
  IN  {NotObject} \cup
      { Object([k \in keys |-> Candidate(typeOf(k), pick[k])]) : pick \in [keys -> 0..2] }

\* ---- thrown values ----
MkError(msg) == [isError |-> TRUE, message |-> msg, hasCause |-> FALSE, cause |-> "undefined"]
MkCaused(msg, c) == [isError |-> TRUE, message |-> msg, hasCause |-> TRUE, cause |-> c]
NoError == [isError |-> FALSE, message |-> NoValue, hasCause |-> FALSE, cause |-> "undefined"]
NoRequest == [name |-> NoValue, arguments |-> NotObject]
NoResponse == [content |-> <<>>, isError |-> FALSE]
ZodError == MkError("zod issues")
ToolNotFound == MkError("Tool not found")
CreateFailed == MkError("Failed to create spreadsheet")
\* What the external API (or the adapter awaiting it) may reject with: an Error
\* without cause, one with a cause payload, one whose cause is undefined, and a
\* thrown value that is no Error.
ApiErrors ==
  {MkError("api error"), MkCaused("api error", "payload"),
   MkCaused("api error", "undefined"),
   [isError |-> FALSE, message |-> "rejection", hasCause |-> FALSE, cause |-> "undefined"]}

\* JSON.stringify(v); in a template literal undefined renders as "undefined".
JSONStringify(v) == IF v = "undefined" THEN "undefined" ELSE "json:" \o v

\* Variant of ErrorMessage that leaves the cause out of the text.
ErrorMessage_NoCause(error) ==
  IF error.isError
  THEN <<"An error occurred: ", error.message>>
  ELSE <<"An error occurred: ", JSONStringify(error.message)>>

\* server.ts 706-714: the text of the failure response.
ErrorMessage(error) ==
  IF error.isError
  THEN <<"An error occurred: ", error.message>>
       \o (IF error.hasCause THEN <<"\nCause: ", JSONStringify(error.cause)>> ELSE <<>>)
  ELSE <<"An error occurred: ", JSONStringify(error.message)>>

TextBlock(text) == [type |-> "text", text |-> text]

\* Variant of FailureResponse that reports the cause in a block of its own.
FailureResponse_CauseBlock(error) ==
  [content |-> <<TextBlock(ErrorMessage_NoCause(error))>>
                 \o (IF error.hasCause
                     THEN <<TextBlock(<<JSONStringify(error.cause)>>)>> ELSE <<>>),
   isError |-> TRUE]

\* server.ts 716-719
FailureResponse(error) ==
  [content |-> <<TextBlock(ErrorMessage(error))>>, isError |-> TRUE]

\* The text of each case's success return (server.ts 557-697).
SuccessText(name, input, result) ==
  CASE name = "search" -> <<"Found files:", result>>
    [] name = "drive_create_folder" -> <<"Created folder with ID: ", result>>
    [] name = "drive_create_file" -> <<"Created file with ID: ", result>>
    [] name = "drive_update_file" -> <<"File updated successfully">>
    [] name = "drive_get_file" -> <<JSONStringify(result)>>
    [] name = "drive_list_files" -> <<JSONStringify(result)>>
    [] name = "drive_update_metadata" -> <<"File metadata updated successfully">>
    [] name = "docs_create" -> <<"Created document with ID: ", result>>
    [] name = "docs_get_content" -> <<result>>
    [] name = "docs_update_content" -> <<"Document updated successfully">>
    [] name = "sheets_create" -> <<"Created spreadsheet with ID: ", result>>
    [] name = "sheets_update_values" -> <<"Values updated successfully">>
    [] name = "sheets_format_cells" -> <<"Cell formatting applied successfully">>
    [] name = "sheets_dimension_operation" ->
         <<input.operation, " operation completed successfully">>
    [] name = "sheets_merge_cells" -> <<"Cells merged successfully">>
    [] OTHER -> <<JSONStringify(result)>>

SuccessResponse(name, input, result) ==
  [content |-> <<TextBlock(SuccessText(name, input, result))>>, isError |-> FALSE]

\* What the awaited API call may resolve with: a payload, or an empty body.
ApiResults == {"data", "empty"}

\* The catch block of the handler (server.ts 703-720): builds the failure
\* response and returns it.
Catch(error) ==
  /\ catches' = catches + 1
  /\ thrown' = error
  /\ response' = FailureResponse(error)
  /\ dpc' = "returned"

\* The adapter method is entered and sends its request; the handler suspends
\* on the awaited promise.
InvokeAdapter(input) ==
  /\ parsed' = input
  /\ adapterCalls' = adapterCalls + 1
  /\ apiCalls' = apiCalls + 1
  /\ dpc' = "awaiting"
  /\ UNCHANGED <<catches, thrown, response>>

\* Variant of DefaultCase that answers with a message but without the error flag.
DefaultCase_NoFlag ==
  /\ response' = [content |-> <<TextBlock(<<"Tool not found">>)>>, isError |-> FALSE]
  /\ dpc' = "returned"
  /\ UNCHANGED <<catches, thrown, parsed, adapterCalls, apiCalls, adapterError>>

\* server.ts 700-701: the default case of the switch.
DefaultCase ==
  /\ Catch(ToolNotFound)
  /\ UNCHANGED <<parsed, adapterCalls, apiCalls, adapterError>>

\* Variant of ToolCase that hands the raw arguments to the adapter.
ToolCase_Unvalidated(name, args) ==
  InvokeAdapter(args.fields) /\ UNCHANGED adapterError

\* One case of the switch (server.ts 544-698): the schema parses the
\* arguments, then the adapter method is called with the parsed input.
ToolCase(name, args) ==
  LET r == Parse(ToolSchema[name], args)
  IN IF r.ok
     THEN InvokeAdapter(r.input) /\ UNCHANGED adapterError
     ELSE Catch(ZodError) /\ UNCHANGED <<parsed, adapterCalls, apiCalls, adapterError>>

\* The handler up to its first suspension (server.ts 537-702).
CallTool(name, args) ==
  /\ dpc = "idle"
  /\ request' = [name |-> name, arguments |-> args]
  /\ IF name \in Catalog THEN ToolCase(name, args) ELSE DefaultCase
  /\ UNCHANGED nonDispatchVars

\* The adapter's promise resolves: the case builds and returns its response.
\* createSpreadsheet throws when the reply carries no spreadsheetId (part_004 91-93).
AdapterResolve(result) ==
  /\ dpc = "awaiting"
  /\ IF request.name = "sheets_create" /\ result = "empty"
     THEN Catch(CreateFailed) /\ adapterError' = CreateFailed
     ELSE /\ response' = SuccessResponse(request.name, parsed, result)
          /\ dpc' = "returned"
          /\ UNCHANGED <<catches, thrown, adapterError>>
  /\ UNCHANGED <<request, parsed, adapterCalls, apiCalls>>
  /\ UNCHANGED nonDispatchVars

\* The adapter's promise rejects: the rejection lands in the catch block.
AdapterReject(error) ==
  /\ dpc = "awaiting"
  /\ adapterError' = error
  /\ Catch(error)
  /\ UNCHANGED <<request, parsed, adapterCalls, apiCalls>>
  /\ UNCHANGED nonDispatchVars

\* The response has been handed to the transport; the next request may come.
NextRequest ==
  /\ dpc = "returned"
  /\ dpc' = "idle"
  /\ request' = NoRequest
  /\ parsed' = NoInput
  /\ adapterCalls' = 0
  /\ apiCalls' = 0
  /\ catches' = 0
  /\ thrown' = NoError
  /\ adapterError' = NoError
  /\ response' = NoResponse
  /\ UNCHANGED nonDispatchVars

InitDispatch ==
  /\ dpc = "idle"
  /\ request = NoRequest
  /\ parsed = NoInput
  /\ adapterCalls = 0
  /\ apiCalls = 0
  /\ catches = 0
  /\ thrown = NoError
  /\ adapterError = NoError
  /\ response = NoResponse

(***************************************************************************)
(* AuthService (part_003 15-186)                                           *)
(***************************************************************************)
MaxTime == 1         \* Date.now() ranges over 0..MaxTime (milliseconds)
NumTokens == 2       \* distinct access tokens the provider hands out
MaxQueryLen == 4     \* longest search query, in characters
MaxElements == 3     \* most structural elements of a document body
MaxStyleAttrs == 2   \* most attributes a style descriptor specifies
MaxIndex == 2        \* largest row or column start index
MaxSections == 2     \* most sections of a descriptor's body

\* The call chains that may be suspended inside AuthService at once.
Callers == {1, 2}

\* part_003 66: const fiveMinutes = 5 * 60 * 1000
fiveMinutes == 5 * 60 * 1000

\* expiry_date values on both sides of now + fiveMinutes for every now; 0 is
\* an absent (undefined, null or 0) expiry_date.
ExpiryDates == {0} \cup {fiveMinutes + d : d \in 0..MaxTime}

\* A Credentials object: token 0 is an absent token.
Null == [isNull |-> TRUE, access_token |-> 0, refresh_token |-> 0, expiry_date |-> 0]
EmptyCredentials ==
  [isNull |-> FALSE, access_token |-> 0, refresh_token |-> 0, expiry_date |-> 0]
CredentialRecords ==
  [isNull : {FALSE}, access_token : 1..NumTokens, refresh_token : {0, 1},
   expiry_date : ExpiryDates]

NullClient == [id |-> 0, credentials |-> Null]
Client(id, creds) == [id |-> id, credentials |-> creds]

\* The text of an access token, in units of equal size: tokens differ in their
\* text and may differ in length.
TokenText(t) == [i \in 1..((t % 2) + 1) |-> "tok" \o ToString(t)]

\* Variant of JSONStringifyCredentials that leaves the expiry out.
JSONStringifyCredentials_NoExpiry(creds) ==
  <<"{">>
    \o (IF creds.access_token # 0
        THEN <<"access_token:">> \o TokenText(creds.access_token) ELSE <<>>)
    \o (IF creds.refresh_token # 0 THEN <<"refresh_token:", "rtok">> ELSE <<>>)
    \o <<"}">>

\* part_003 135: JSON.stringify(credentials, null, 2).  A property whose value
\* is undefined is left out; the text is a sequence of units.
JSONStringifyCredentials(creds) ==
  <<"{">>
    \o (IF creds.access_token # 0
        THEN <<"access_token:">> \o TokenText(creds.access_token) ELSE <<>>)
    \o (IF creds.refresh_token # 0 THEN <<"refresh_token:", "rtok">> ELSE <<>>)
    \o (IF creds.expiry_date # 0
        THEN <<"expiry_date:", ToString(creds.expiry_date)>> ELSE <<>>)
    \o <<"}">>

\* part_003 159: JSON.parse(content), read unit by unit.  It throws a
\* SyntaxError on a text that is no JSON value (empty, cut short, or followed
\* by other characters); a property the text lacks reads as undefined.
PropertyKeys == {"access_token:", "refresh_token:", "expiry_date:"}
KeyIndex(body, key) ==
  IF \E i \in 1..Len(body) : body[i] = key
  THEN CHOOSE i \in 1..Len(body) : body[i] = key
  ELSE 0
\* The units of the value that follows the key at index i.
ValueAfter(body, i) ==
  LET stops == {j \in (i + 1)..Len(body) : body[j] \in PropertyKeys} \cup {Len(body) + 1}
      stop == CHOOSE j \in stops : \A k \in stops : j <= k
  IN SubSeq(body, i + 1, stop - 1)
PropertyText(body, key) ==
  IF KeyIndex(body, key) = 0 THEN <<>> ELSE ValueAfter(body, KeyIndex(body, key))
IsTokenText(units) == \E t \in 1..(NumTokens + 1) : TokenText(t) = units
IsNumberText(units) ==
  Len(units) = 1 /\ \E e \in ExpiryDates \ {0} : ToString(e) = units[1]
WellFormed(text) ==
  /\ Len(text) >= 2
  /\ text[1] = "{"
  /\ text[Len(text)] = "}"
  /\ LET body == SubSeq(text, 2, Len(text) - 1) IN
     /\ \A i \in 1..Len(body) : body[i] \notin {"{", "}"}
     /\ Len(body) > 0 => body[1] \in PropertyKeys
     /\ \A i, j \in 1..Len(body) : (body[i] \in PropertyKeys /\ body[i] = body[j]) => i = j
     /\ KeyIndex(body, "access_token:") # 0 => IsTokenText(PropertyText(body, "access_token:"))
     /\ KeyIndex(body, "refresh_token:") # 0 => PropertyText(body, "refresh_token:") = <<"rtok">>
     /\ KeyIndex(body, "expiry_date:") # 0 => IsNumberText(PropertyText(body, "expiry_date:"))
JSONParseCredentials(text) ==
  IF ~WellFormed(text) THEN [ok |-> FALSE, value |-> Null]
  ELSE LET body == SubSeq(text, 2, Len(text) - 1)
           at == PropertyText(body, "access_token:")
           ex == PropertyText(body, "expiry_date:")
       IN [ok |-> TRUE,
           value |->
             [isNull |-> FALSE,
              access_token |->
                IF at = <<>> THEN 0
                ELSE CHOOSE t \in 1..(NumTokens + 1) : TokenText(t) = at,
              refresh_token |-> IF KeyIndex(body, "refresh_token:") = 0 THEN 0 ELSE 1,
              expiry_date |->
                IF ex = <<>> THEN 0
                ELSE CHOOSE e \in ExpiryDates \ {0} : ToString(e) = ex[1]]]

AbsentFile == [state |-> "absent", text |-> <<>>]
\* An existing file no JSON value can be read from (here: an empty one).
CorruptFile == [state |-> "present", text |-> <<>>]
\* The file after a whole write of JSON.stringify(credentials, null, 2)
\* (part_003 133-136).
FileOf(creds) == [state |-> "present", text |-> JSONStringifyCredentials(creds)]

\* fs.promises.writeFile opens the path with flag 'w': the file is created
\* or cut to length 0.
Truncate(file) == [state |-> "present", text |-> <<>>]
\* ... and then writes the data from offset 0 of its own descriptor: what
\* the file holds beyond the data stays.
Overwrite(file, data) ==
  [state |-> "present",
   text |-> data \o SubSeq(file.text, Len(data) + 1, Len(file.text))]

NoOutcome == [kind |-> "none", client |-> 0, code |-> NoValue]
Returned(id) == [kind |-> "returned", client |-> id, code |-> NoValue]
\* new AuthenticationError(message, code)
Threw(code) == [kind |-> "threw", client |-> 0, code |-> code]

NoLocal == [client |-> 0, loaded |-> Null, toWrite |-> Null]
NoHist ==
  [refreshes |-> 0, writes |-> 0, loads |-> 0, loadResult |-> "none",
   checked |-> FALSE, checkedCreds |-> Null, checkedNow |-> 0, checkedAuth |-> 0,
   saveError |-> NoValue, refreshed |-> Null, entryHeld |-> FALSE]

\* Object identity of a newly constructed OAuth2Client: an identity no live
\* reference holds (identities of unreachable objects are reused).
LiveClients ==
  {auth.id} \cup {local[p].client : p \in Callers} \cup {outcome[p].client : p \in Callers}
    \cup {hist[p].checkedAuth : p \in Callers}
NewClientId ==
  LET free == (1..(3 * Cardinality(Callers) + 2)) \ LiveClients
      first == CHOOSE i \in free : \A j \in free : i <= j
  IN first

\* ---- the ways an operation ends ----
Finish(p, result) ==
  /\ outcome' = [outcome EXCEPT ![p] = result]
  /\ apc' = [apc EXCEPT ![p] = "done"]

\* part_003 79-84: the catch around refresh and save in authenticate()
RefreshCatch(error) == "REFRESH_FAILED"
\* part_003 122-127: the catch of performFullAuthentication()
FullAuthCatch(error) == "AUTH_FAILED"
\* Variant of LoadCatch without the rethrow of an AuthenticationError.
LoadCatch_WrapAll(error) == "LOAD_FAILED"

\* part_003 172-180: the catch of loadSavedCredentials()
LoadCatch(error) == IF error = "NO_OAUTH_KEYS" THEN error ELSE "LOAD_FAILED"
\* part_003 137-142: the catch of saveCredentials()
SaveCatch(error) == "SAVE_FAILED"

\* The error that leaves the operation `o` when saveCredentials() threw `error`.
SaveErrorAtCaller(o, error) ==
  IF o = "authenticate" THEN RefreshCatch(error) ELSE FullAuthCatch(error)

\* Variants of ExpiryValid: a buffer twice as long, and no buffer at all.
ExpiryValid_DoubleBuffer(creds, t) ==
  creds.expiry_date # 0 /\ creds.expiry_date > t + 2 * fiveMinutes
ExpiryValid_NoBuffer(creds, t) == creds.expiry_date # 0 /\ creds.expiry_date > t

\* Variant of ExpiryValid that takes a record without expiry for valid.
ExpiryValid_AbsentIsValid(creds, t) ==
  creds.expiry_date = 0 \/ creds.expiry_date > t + fiveMinutes

\* part_003 64-90: the expiry check and what follows it without suspending.
ExpiryValid(creds, t) == creds.expiry_date # 0 /\ creds.expiry_date > t + fiveMinutes

\* Variant of HasRefreshToken that tries the refresh whatever the record holds.
HasRefreshToken_Always(creds) == TRUE

\* part_003 73: if (this.credentials.refresh_token)
HasRefreshToken(creds) == creds.refresh_token # 0

CheckExpiry(p, a, c, h) ==
  LET h1 == [h EXCEPT !.checked = TRUE, !.checkedCreds = c, !.checkedNow = now,
                      !.checkedAuth = a.id]
  IN IF ExpiryValid(c, now)
     THEN /\ Finish(p, Returned(a.id))
          /\ hist' = [hist EXCEPT ![p] = h1]
          /\ UNCHANGED local
     ELSE IF HasRefreshToken(c)
     THEN /\ apc' = [apc EXCEPT ![p] = "refreshing"]
          /\ hist' = [hist EXCEPT ![p] = [h1 EXCEPT !.refreshes = h.refreshes + 1]]
          /\ local' = [local EXCEPT ![p].client = a.id]
          /\ UNCHANGED outcome
     ELSE /\ Finish(p, Threw("NO_REFRESH_TOKEN"))
          /\ hist' = [hist EXCEPT ![p] = h1]
          /\ UNCHANGED local

\* part_003 146-158: loadSavedCredentials() up to its first await.  `o` is the
\* operation it runs in: authenticate() turns a null result into NO_CREDENTIALS.
LoadBegin(p, o, h) ==
  LET h1 == [h EXCEPT !.loads = h.loads + 1] IN
  /\ UNCHANGED local
  /\ IF credFile.state = "absent"
     THEN /\ hist' = [hist EXCEPT ![p] = [h1 EXCEPT !.loadResult = "null"]]
          /\ Finish(p, IF o = "authenticate" THEN Threw("NO_CREDENTIALS") ELSE Returned(0))
     ELSE IF oauthFile = "absent"
     THEN /\ hist' = [hist EXCEPT ![p] = [h1 EXCEPT !.loadResult = "threw"]]
          /\ Finish(p, Threw(LoadCatch("NO_OAUTH_KEYS")))
     ELSE /\ hist' = [hist EXCEPT ![p] = h1]
          /\ apc' = [apc EXCEPT ![p] = "readCreds"]
          /\ UNCHANGED outcome

\* Variant of NothingHeld that looks at the client only.
NothingHeld_ClientOnly(a, c) == a.id = 0

\* part_003 46 and 57: if (!this.auth || !this.credentials)
NothingHeld(a, c) == a.id = 0 \/ c.isNull

\* authenticate() is called (part_003 44-91, up to the first suspension).
Authenticate(p) ==
  /\ apc[p] = "idle"
  /\ op' = [op EXCEPT ![p] = "authenticate"]
  /\ LET h == [NoHist EXCEPT !.entryHeld = (auth.id # 0 /\ ~credentials.isNull)]
     IN IF NothingHeld(auth, credentials)
        THEN LoadBegin(p, "authenticate", h)
        ELSE CheckExpiry(p, auth, credentials, h)
  /\ UNCHANGED <<auth, credentials, credFile, oauthFile, now>>
  /\ UNCHANGED nonAuthVars

\* loadSavedCredentials() is called by itself (index.ts 19).
LoadSavedCredentials(p) ==
  /\ apc[p] = "idle"
  /\ op' = [op EXCEPT ![p] = "loadSavedCredentials"]
  /\ LoadBegin(p, "loadSavedCredentials",
               [NoHist EXCEPT !.entryHeld = (auth.id # 0 /\ ~credentials.isNull)])
  /\ UNCHANGED <<auth, credentials, credFile, oauthFile, now>>
  /\ UNCHANGED nonAuthVars

\* part_003 158-159: readFile(credentialsPath) settles and JSON.parse runs.
LoadReadCredentials(p, ioError) ==
  /\ apc[p] = "readCreds"
  /\ IF ioError \/ credFile.state = "absent" \/ ~JSONParseCredentials(credFile.text).ok
     THEN /\ Finish(p, Threw(LoadCatch("read error")))
          /\ hist' = [hist EXCEPT ![p].loadResult = "threw"]
          /\ UNCHANGED local
     ELSE /\ local' = [local EXCEPT ![p].loaded = JSONParseCredentials(credFile.text).value]
          /\ apc' = [apc EXCEPT ![p] = "readOAuth"]
          /\ UNCHANGED <<outcome, hist>>
  /\ UNCHANGED <<auth, credentials, credFile, oauthFile, now, op>>
  /\ UNCHANGED nonAuthVars

\* part_003 161-171: readFile(oauthPath) settles; the client is built, given
\* the credentials and stored.
LoadReadOAuth(p, ioError) ==
  /\ apc[p] = "readOAuth"
  /\ IF ioError \/ oauthFile # "ok"
     THEN /\ Finish(p, Threw(LoadCatch("read error")))
          /\ hist' = [hist EXCEPT ![p].loadResult = "threw"]
          /\ UNCHANGED <<auth, credentials>>
     ELSE /\ auth' = Client(NewClientId, local[p].loaded)
          /\ credentials' = local[p].loaded
          /\ hist' = [hist EXCEPT ![p].loadResult = "client"]
          /\ IF op[p] = "authenticate"
             THEN apc' = [apc EXCEPT ![p] = "afterLoad"] /\ UNCHANGED outcome
             ELSE Finish(p, Returned(NewClientId))
  /\ UNCHANGED <<credFile, oauthFile, now, op, local>>
  /\ UNCHANGED nonAuthVars

\* part_003 56-90: authenticate() resumes after the await of the load.
AuthenticateAfterLoad(p) ==
  /\ apc[p] = "afterLoad"
  /\ IF NothingHeld(auth, credentials)
     THEN /\ Finish(p, Threw("INVALID_STATE"))
          /\ UNCHANGED <<hist, local>>
     ELSE CheckExpiry(p, auth, credentials, hist[p])
  /\ UNCHANGED <<auth, credentials, credFile, oauthFile, now, op>>
  /\ UNCHANGED nonAuthVars

\* part_003 130-136: saveCredentials() up to its await: ensureDirectory, then
\* writeFile is started with the serialized record.
SaveBegin(p, creds, mkdirError) ==
  IF mkdirError
  THEN /\ Finish(p, Threw(SaveErrorAtCaller(op[p], SaveCatch("mkdir error"))))
       /\ hist' = [hist EXCEPT ![p].saveError = SaveCatch("mkdir error"),
                               ![p].refreshed = creds]
       /\ UNCHANGED local
  ELSE /\ apc' = [apc EXCEPT ![p] = "saving"]
       /\ local' = [local EXCEPT ![p].toWrite = creds]
       /\ hist' = [hist EXCEPT ![p].refreshed = creds]
       /\ UNCHANGED outcome

\* part_003 75-77: refreshAccessToken() resolves; the client that was asked
\* carries the new credentials, the service stores them and starts the save.
RefreshResolve(p, resp, mkdirError) ==
  /\ apc[p] = "refreshing"
  /\ auth' = IF auth.id = local[p].client THEN Client(auth.id, resp) ELSE auth
  /\ credentials' = resp
  /\ SaveBegin(p, resp, mkdirError)
  /\ UNCHANGED <<credFile, oauthFile, now, op>>
  /\ UNCHANGED nonAuthVars

\* Variant of RefreshReject that forgets the stored record.
RefreshReject_ForgetsCredentials(p) ==
  /\ apc[p] = "refreshing"
  /\ Finish(p, Threw(RefreshCatch("refresh error")))
  /\ credentials' = Null
  /\ UNCHANGED <<auth, credFile, oauthFile, now, op, local, hist>>
  /\ UNCHANGED nonAuthVars

\* part_003 75, 79-84: refreshAccessToken() rejects.
RefreshReject(p) ==
  /\ apc[p] = "refreshing"
  /\ Finish(p, Threw(RefreshCatch("refresh error")))
  /\ UNCHANGED <<auth, credentials, credFile, oauthFile, now, op, local, hist>>
  /\ UNCHANGED nonAuthVars

\* part_003 133: writeFile has opened the path (flag 'w').
SaveOpen(p) ==
  /\ apc[p] = "saving"
  /\ credFile' = Truncate(credFile)
  /\ apc' = [apc EXCEPT ![p] = "writing"]
  /\ UNCHANGED <<auth, credentials, oauthFile, now, op, local, outcome, hist>>
  /\ UNCHANGED nonAuthVars

\* part_003 133-136, then 78 / 121: writeFile has written the text and
\* resolves, the operation returns this.auth.
SaveResolve(p) ==
  /\ apc[p] = "writing"
  /\ credFile' = Overwrite(credFile, JSONStringifyCredentials(local[p].toWrite))
  /\ hist' = [hist EXCEPT ![p].writes = hist[p].writes + 1]
  /\ Finish(p, Returned(auth.id))
  /\ UNCHANGED <<auth, credentials, oauthFile, now, op, local>>
  /\ UNCHANGED nonAuthVars

\* part_003 137-142: writeFile rejects, at the open or at the write; the file
\* is left as it is then.
SaveReject(p) ==
  /\ apc[p] \in {"saving", "writing"}
  /\ UNCHANGED credFile
  /\ hist' = [hist EXCEPT ![p].saveError = SaveCatch("write error")]
  /\ Finish(p, Threw(SaveErrorAtCaller(op[p], SaveCatch("write error"))))
  /\ UNCHANGED <<auth, credentials, oauthFile, now, op, local>>
  /\ UNCHANGED nonAuthVars

\* performFullAuthentication() is called (part_003 93-102, up to the first await).
PerformFullAuthentication(p) ==
  /\ apc[p] = "idle"
  /\ op' = [op EXCEPT ![p] = "performFullAuthentication"]
  /\ hist' = [hist EXCEPT ![p] =
                [NoHist EXCEPT !.entryHeld = (auth.id # 0 /\ ~credentials.isNull)]]
  /\ UNCHANGED local
  /\ IF oauthFile = "absent"
     THEN Finish(p, Threw("NO_OAUTH_KEYS"))
     ELSE apc' = [apc EXCEPT ![p] = "fullReadOAuth"] /\ UNCHANGED outcome
  /\ UNCHANGED <<auth, credentials, credFile, oauthFile, now>>
  /\ UNCHANGED nonAuthVars

\* part_003 102-109: the client config is read, a bare client is stored in
\* this.auth and the browser flow is started.
FullAuthReadOAuth(p, ioError) ==
  /\ apc[p] = "fullReadOAuth"
  /\ IF ioError \/ oauthFile # "ok"
     THEN /\ Finish(p, Threw(FullAuthCatch("read error")))
          /\ UNCHANGED auth
     ELSE /\ auth' = Client(NewClientId, EmptyCredentials)
          /\ apc' = [apc EXCEPT ![p] = "fullFlow"]
          /\ UNCHANGED outcome
  /\ UNCHANGED <<credentials, credFile, oauthFile, now, op, local, hist>>
  /\ UNCHANGED nonAuthVars

\* part_003 109-120: the browser flow resolves with an authorized client.
FullAuthFlowResolve(p, creds, mkdirError) ==
  /\ apc[p] = "fullFlow"
  /\ auth' = Client(NewClientId, creds)
  /\ credentials' = creds
  /\ SaveBegin(p, creds, mkdirError)
  /\ UNCHANGED <<credFile, oauthFile, now, op>>
  /\ UNCHANGED nonAuthVars

\* part_003 109, 122-127: the browser flow rejects.
FullAuthFlowReject(p) ==
  /\ apc[p] = "fullFlow"
  /\ Finish(p, Threw(FullAuthCatch("flow error")))
  /\ UNCHANGED <<auth, credentials, credFile, oauthFile, now, op, local, hist>>
  /\ UNCHANGED nonAuthVars

\* The caller has taken the result; it may call again.
CallerContinues(p) ==
  /\ apc[p] = "done"
  /\ apc' = [apc EXCEPT ![p] = "idle"]
  /\ op' = [op EXCEPT ![p] = NoValue]
  /\ outcome' = [outcome EXCEPT ![p] = NoOutcome]
  /\ hist' = [hist EXCEPT ![p] = NoHist]
  /\ local' = [local EXCEPT ![p] = NoLocal]
  /\ UNCHANGED <<auth, credentials, credFile, oauthFile, now>>
  /\ UNCHANGED nonAuthVars

\* Time passes.
Tick ==
  /\ now < MaxTime
  /\ now' = now + 1
  /\ UNCHANGED <<auth, credentials, credFile, oauthFile, apc, op, local,
                 outcome, hist>>
  /\ UNCHANGED nonAuthVars

\* part_003 17-18: auth and credentials start null; the files are whatever
\* the operator left at the two paths.
InitAuth ==
  /\ auth = NullClient
  /\ credentials = Null
  /\ credFile \in {AbsentFile, CorruptFile} \cup {FileOf(c) : c \in CredentialRecords}
  /\ oauthFile \in {"absent", "corrupt", "ok"}
  /\ now = 0
  /\ apc = [p \in Callers |-> "idle"]
  /\ op = [p \in Callers |-> NoValue]
  /\ local = [p \in Callers |-> NoLocal]
  /\ outcome = [p \in Callers |-> NoOutcome]
  /\ hist = [p \in Callers |-> NoHist]

\* index.ts 7-9: main() has not run; process.argv carries `args`.
Running == [exited |-> FALSE, code |-> 0]
Exited(code) == [exited |-> TRUE, code |-> code]
InitMainWith(args) ==
  /\ argv = args
  /\ process = Running
  /\ server = "none"
InitMain == InitMainWith(<<>>)

\* No service method is running.
NoCall == [k \in {} |-> "undefined"]
InitService ==
  /\ svcFn = "none"
  /\ svcPc = "done"
  /\ svcArg = NoCall
  /\ svcLocal = NoCall
  /\ svcApi = <<>>
  /\ svcResult = NoCall

\* ---- main() (index.ts 7-36): its AuthService calls are those of caller 1 ----
\* index.ts 12: process.argv.includes("auth")
AuthRequested(args) == \E i \in 1..Len(args) : args[i] = "auth"

\* Variant of FoundCredentials that takes any returned value for a client.
FoundCredentials_Any(o) == o.kind = "returned"

\* index.ts 19-20: const auth = await ...; if (!auth) is false
FoundCredentials(o) == o.kind = "returned" /\ o.client # 0

\* index.ts 8-13 and 19: main() runs up to its first await.
MainStart ==
  /\ ~process.exited
  /\ server = "none"
  /\ IF AuthRequested(argv) THEN PerformFullAuthentication(1) ELSE LoadSavedCredentials(1)

\* index.ts 13-15 and 30-33: performFullAuthentication() has settled.
MainAfterFullAuth ==
  /\ ~process.exited
  /\ apc[1] = "done"
  /\ op[1] = "performFullAuthentication"
  /\ process' = IF outcome[1].kind = "returned" THEN Exited(0) ELSE Exited(1)
  /\ UNCHANGED <<argv, server>>
  /\ UNCHANGED <<dispatchVars, authVars, serviceVars>>

\* index.ts 19-29 and 30-33: loadSavedCredentials() has settled; without a
\* client the process exits, with one the server is built and connect() called.
MainAfterLoad ==
  /\ ~process.exited
  /\ server = "none"
  /\ apc[1] = "done"
  /\ op[1] = "loadSavedCredentials"
  /\ IF FoundCredentials(outcome[1])
     THEN server' = "connecting" /\ UNCHANGED process
     ELSE process' = Exited(1) /\ UNCHANGED server
  /\ UNCHANGED argv
  /\ UNCHANGED <<dispatchVars, authVars, serviceVars>>

\* index.ts 29: server.connect(transport) resolves; main() returns.
MainConnectResolve ==
  /\ ~process.exited
  /\ server = "connecting"
  /\ server' = "connected"
  /\ UNCHANGED <<argv, process>>
  /\ UNCHANGED <<dispatchVars, authVars, serviceVars>>

\* index.ts 29-33: server.connect(transport) rejects.
MainConnectReject ==
  /\ ~process.exited
  /\ server = "connecting"
  /\ server' = "failed"
  /\ process' = Exited(1)
  /\ UNCHANGED argv
  /\ UNCHANGED <<dispatchVars, authVars, serviceVars>>

\* ---- GoogleDriveService (part_006) ----
\* A service method has been called with one of `args`.
InitCall(fn, args) ==
  /\ svcFn = fn
  /\ svcPc = "called"
  /\ svcArg \in args
  /\ svcLocal = NoCall
  /\ svcApi = <<>>
  /\ svcResult = NoCall
\* The method returns `result`.
Return(result) ==
  /\ svcResult' = result
  /\ svcPc' = "done"

\* Strings are sequences of characters; a query is made of backslashes,
\* single quotes and other characters.
Backslash == "\\"
Quote == "'"
QueryChars == {Backslash, Quote, "a"}
RECURSIVE StringsUpTo(_, _)
StringsUpTo(chars, n) ==
  IF n = 0 THEN {<<>>}
  ELSE LET shorter == StringsUpTo(chars, n - 1)
       IN shorter \cup {Append(str, c) : str \in shorter, c \in chars}

\* String.prototype.replace(/ch/g, by)
RECURSIVE ReplaceAll(_, _, _)
ReplaceAll(str, ch, by) ==
  IF str = <<>> THEN <<>>
  ELSE (IF Head(str) = ch THEN by ELSE <<Head(str)>>) \o ReplaceAll(Tail(str), ch, by)

\* Variant of EscapeQuery that escapes the quotes first.
EscapeQuery_QuotesFirst(query) ==
  ReplaceAll(ReplaceAll(query, Quote, <<Backslash, Quote>>),
             Backslash, <<Backslash, Backslash>>)

\* part_006 22: query.replace(/\\/g, "\\\\").replace(/'/g, "\\'")
EscapeQuery(query) ==
  ReplaceAll(ReplaceAll(query, Backslash, <<Backslash, Backslash>>),
             Quote, <<Backslash, Quote>>)

\* part_006 23: `fullText contains '${escapedQuery}'`
FormatQuery(query) == <<"fullText contains ", Quote>> \o EscapeQuery(query) \o <<Quote>>

\* part_006 25-29: the files.list request is sent.
SearchFilesBegin(input) ==
  /\ svcApi' = Append(svcApi,
       [method |-> "files.list", q |-> FormatQuery(input.query),
        pageSize |-> input.page_size])
  /\ svcPc' = "files.list"

\* part_006 20-29: searchFiles() up to the await of files.list.
SearchFiles ==
  /\ svcFn = "searchFiles"
  /\ svcPc = "called"
  /\ SearchFilesBegin(svcArg)
  /\ UNCHANGED <<svcFn, svcArg, svcLocal, svcResult>>
  /\ UNCHANGED <<dispatchVars, authVars, mainVars>>

\* server.ts 69-72: the list-resources handler calls searchFiles().
ListResourcesInput == [query |-> <<>>, page_size |-> 10]
ListResources ==
  /\ svcFn = "listResources"
  /\ svcPc = "called"
  /\ SearchFilesBegin(ListResourcesInput)
  /\ UNCHANGED <<svcFn, svcArg, svcLocal, svcResult>>
  /\ UNCHANGED <<dispatchVars, authVars, mainVars>>

\* A file as files.list describes it (fields id, name, mimeType, ...).
DriveFile(i) ==
  [id |-> <<"f" \o ToString(i)>>,
   mimeType |-> IF i % 2 = 0 THEN <<"text/", "plain">>
                ELSE <<"application/vnd.google-apps", ".document">>,
   name |-> "name" \o ToString(i)]
FileList(n) == [i \in 1..n |-> DriveFile(i)]
\* What files.list answers in res.data.files: nothing, or a list of files.
NoFiles == [defined |-> FALSE, files |-> <<>>]
FileLists == {NoFiles} \cup {[defined |-> TRUE, files |-> FileList(n)] : n \in {0, 1, 2, 10, 11}}

\* server.ts 75: `gdrive:///${file.id}`
ResourceUri(id) == <<"gdrive:///">> \o id
\* server.ts 74-81: the handler's result.
ListResourcesResult(files) ==
  [resources |->
     [i \in 1..Len(files) |->
        [uri |-> ResourceUri(files[i].id), mimeType |-> files[i].mimeType,
         name |-> files[i].name]],
   nextCursor |-> "null"]

\* part_006 31: return res.data.files || [].  files.list answers with at
\* most pageSize files.
SearchFilesReturn(list) ==
  /\ svcFn \in {"searchFiles", "listResources"}
  /\ svcPc = "files.list"
  /\ Len(list.files) <= svcApi[1].pageSize
  /\ LET files == IF list.defined THEN list.files ELSE <<>>
     IN Return(IF svcFn = "listResources" THEN ListResourcesResult(files) ELSE files)
  /\ svcLocal' = [files |-> list.files]
  /\ UNCHANGED <<svcFn, svcArg, svcApi>>
  /\ UNCHANGED <<dispatchVars, authVars, mainVars>>

\* ---- getFileContent (part_006 87-144) ----
\* A mime type is a string cut into units at the places the code looks at.
NativePrefix == <<"application/vnd.google-apps">>
NativeMimeTypes ==
  {NativePrefix \o <<kind>> :
     kind \in {".document", ".spreadsheet", ".presentation", ".drawing", ".form", ".folder"}}
    \cup {NativePrefix}
PlainMimeTypes ==
  {<<"text/", "plain">>, <<"text/", "csv">>, <<"text">>, <<"application/json">>,
   <<"application/json", "l">>, <<"application/pdf">>, <<"image/png">>,
   <<"application/octet-stream">>}
\* file.data.mimeType; the empty string stands for a missing one as well.
MimeTypes == NativeMimeTypes \cup PlainMimeTypes \cup {<<>>}

\* String.prototype.startsWith
StartsWith(str, prefix) ==
  Len(str) >= Len(prefix) /\ SubSeq(str, 1, Len(prefix)) = prefix

\* part_006 94: file.data.mimeType || "application/octet-stream"
MimeTypeOrDefault(mimeType) ==
  IF mimeType = <<>> THEN <<"application/octet-stream">> ELSE mimeType

\* part_006 97
IsNative(mimeType) == StartsWith(mimeType, NativePrefix)

\* Variant of ExportMimeType that exports every native type as plain text.
ExportMimeType_AllPlain(mimeType) == <<"text/", "plain">>

\* part_006 98-114: the switch on the native type.
ExportMimeType(mimeType) ==
  IF mimeType = NativePrefix \o <<".document">> THEN <<"text/", "markdown">>
  ELSE IF mimeType = NativePrefix \o <<".spreadsheet">> THEN <<"text/", "csv">>
  ELSE IF mimeType = NativePrefix \o <<".presentation">> THEN <<"text/", "plain">>
  ELSE IF mimeType = NativePrefix \o <<".drawing">> THEN <<"image/png">>
  ELSE <<"text/", "plain">>

\* Variant of IsTextual that knows text/ only.
IsTextual_TextOnly(mimeType) == StartsWith(mimeType, <<"text/">>)

\* part_006 133
IsTextual(mimeType) ==
  StartsWith(mimeType, <<"text/">>) \/ mimeType = <<"application/json">>

\* Buffer.prototype.toString("utf-8") on bytes below 128 and on bytes that
\* start no UTF-8 sequence (these decode to U+FFFD).
Utf8Decode(bytes) ==
  [i \in 1..Len(bytes) |-> IF bytes[i] < 128 THEN "U+" \o ToString(bytes[i]) ELSE "U+FFFD"]

TextContent(str) == [kind |-> "string", data |-> str]
BinaryContent(bytes) == [kind |-> "Buffer", data |-> bytes]

\* part_006 89-92: the metadata request is sent for `fileId`.
GetFileContentBegin(fileId) ==
  /\ svcApi' = Append(svcApi, [method |-> "files.get", fileId |-> fileId,
                               fields |-> "mimeType", alt |-> "none"])
  /\ svcPc' = "files.get"

GetFileContent ==
  /\ svcFn = "getFileContent"
  /\ svcPc = "called"
  /\ GetFileContentBegin(svcArg.fileId)
  /\ svcLocal' = [fileId |-> svcArg.fileId, fileMimeType |-> <<>>, mimeType |-> <<>>,
                  content |-> TextContent(<<>>)]
  /\ UNCHANGED <<svcFn, svcArg, svcResult>>
  /\ UNCHANGED <<dispatchVars, authVars, mainVars>>

\* part_006 94-131: the metadata has arrived; the file is exported or downloaded.
GetFileContentMetadata(fileMimeType) ==
  /\ svcPc = "files.get"
  /\ LET mimeType == MimeTypeOrDefault(fileMimeType) IN
     /\ svcLocal' = [svcLocal EXCEPT !.fileMimeType = fileMimeType, !.mimeType = mimeType]
     /\ IF IsNative(mimeType)
        THEN /\ svcApi' = Append(svcApi,
                  [method |-> "files.export", fileId |-> svcLocal.fileId,
                   mimeType |-> ExportMimeType(mimeType), responseType |-> "text"])
             /\ svcPc' = "files.export"
        ELSE /\ svcApi' = Append(svcApi,
                  [method |-> "files.get", fileId |-> svcLocal.fileId,
                   fields |-> "none", alt |-> "media", responseType |-> "arraybuffer"])
             /\ svcPc' = "files.get media"
  /\ UNCHANGED <<svcFn, svcArg, svcResult>>
  /\ UNCHANGED <<dispatchVars, authVars, mainVars>>

\* String.prototype.replace(pattern, by) with a string pattern: the first
\* occurrence only.
RECURSIVE ReplaceFirst(_, _, _)
ReplaceFirst(str, pattern, by) ==
  IF str = <<>> THEN <<>>
  ELSE IF StartsWith(str, pattern)
  THEN by \o SubSeq(str, Len(pattern) + 1, Len(str))
  ELSE <<Head(str)>> \o ReplaceFirst(Tail(str), pattern, by)

\* Variant of FileIdOfUri that takes the whole URI for the id.
FileIdOfUri_Whole(uri) == uri

\* server.ts 88: request.params.uri.replace("gdrive:///", "")
FileIdOfUri(uri) == ReplaceFirst(uri, <<"gdrive:///">>, <<>>)

\* Buffer.prototype.toString("base64"): three bytes give four characters of
\* six bits each (written "b64:" and the value), a shorter rest is padded.
Sextet(n) == "b64:" \o ToString(n)
RECURSIVE Base64(_)
Base64(bytes) ==
  IF Len(bytes) = 0 THEN <<>>
  ELSE IF Len(bytes) = 1
  THEN <<Sextet(bytes[1] \div 4), Sextet((bytes[1] % 4) * 16), "=", "=">>
  ELSE IF Len(bytes) = 2
  THEN <<Sextet(bytes[1] \div 4),
         Sextet((bytes[1] % 4) * 16 + bytes[2] \div 16),
         Sextet((bytes[2] % 16) * 4), "=">>
  ELSE <<Sextet(bytes[1] \div 4),
         Sextet((bytes[1] % 4) * 16 + bytes[2] \div 16),
         Sextet((bytes[2] % 16) * 4 + bytes[3] \div 64),
         Sextet(bytes[3] % 64)>> \o Base64(SubSeq(bytes, 4, Len(bytes)))

\* server.ts 91-99: the read-resource handler's result.
ReadResourceResult(uri, result) ==
  [contents |->
     <<[uri |-> uri,
        mimeType |-> result.mimeType,
        text |-> IF result.content.kind = "string" THEN result.content.data
                 ELSE Base64(result.content.data)]>>]

\* What the caller of getFileContent() makes of its result: the read-resource
\* handler wraps it (server.ts 89-99), a direct caller takes it as it is.
FileContentResult(result) ==
  IF svcFn = "readResource" THEN ReadResourceResult(svcArg.uri, result) ELSE result

\* server.ts 87-89: the read-resource handler calls getFileContent().
ReadResource ==
  /\ svcFn = "readResource"
  /\ svcPc = "called"
  /\ GetFileContentBegin(FileIdOfUri(svcArg.uri))
  /\ svcLocal' = [fileId |-> FileIdOfUri(svcArg.uri), fileMimeType |-> <<>>, mimeType |-> <<>>,
                  content |-> TextContent(<<>>)]
  /\ UNCHANGED <<svcFn, svcArg, svcResult>>
  /\ UNCHANGED <<dispatchVars, authVars, mainVars>>

\* part_006 116-124: the export has arrived as a string.
GetFileContentExported(data) ==
  /\ svcPc = "files.export"
  /\ Return(FileContentResult(
       [mimeType |-> ExportMimeType(svcLocal.mimeType), content |-> TextContent(data)]))
  /\ svcLocal' = [svcLocal EXCEPT !.content = TextContent(data)]
  /\ UNCHANGED <<svcFn, svcArg, svcApi>>
  /\ UNCHANGED <<dispatchVars, authVars, mainVars>>

\* part_006 133-143: the bytes have arrived.
GetFileContentDownloaded(bytes) ==
  /\ svcPc = "files.get media"
  /\ Return(FileContentResult(
       [mimeType |-> svcLocal.mimeType,
        content |-> IF IsTextual(svcLocal.mimeType)
                    THEN TextContent(Utf8Decode(bytes))
                    ELSE BinaryContent(bytes)]))
  /\ svcLocal' = [svcLocal EXCEPT !.content =
       IF IsTextual(svcLocal.mimeType) THEN TextContent(Utf8Decode(bytes))
       ELSE BinaryContent(bytes)]
  /\ UNCHANGED <<svcFn, svcArg, svcApi>>
  /\ UNCHANGED <<dispatchVars, authVars, mainVars>>

\* A Drive request of the running method rejects: the method throws.
DriveReject ==
  /\ svcPc \in {"files.list", "files.get", "files.export", "files.get media"}
  /\ svcPc' = "threw"
  /\ UNCHANGED <<svcFn, svcArg, svcLocal, svcApi, svcResult>>
  /\ UNCHANGED <<dispatchVars, authVars, mainVars>>

\* ---- GoogleDocsService (part_004 9-56; part_003 514-993) ----
\* A paragraph element: a text run with its content, or something else (an
\* inline object, a page break, ...).
TextRun(str) == [kind |-> "textRun", content |-> str]
InlineObject == [kind |-> "inlineObjectElement", content |-> <<>>]
\* A structural element: a paragraph with its elements, a paragraph without
\* any, or something else (a table, a section break, ...).
Paragraph(elements) == [kind |-> "paragraph", hasElements |-> TRUE, elements |-> elements]
BareParagraph == [kind |-> "paragraph", hasElements |-> FALSE, elements |-> <<>>]
Table == [kind |-> "table", hasElements |-> FALSE, elements |-> <<>>]
StructuralElements ==
  {Paragraph(<<>>),
   Paragraph(<<TextRun(<<"a">>)>>),
   Paragraph(<<InlineObject, TextRun(<<"b", "c">>)>>),
   Paragraph(<<TextRun(<<"a">>), InlineObject, TextRun(<<"b", "c">>)>>),
   Paragraph(<<TextRun(<<>>), TextRun(<<"a">>)>>),
   BareParagraph, Table}
\* doc.data.body: missing, or with its content.
NoBody == [present |-> FALSE, content |-> <<>>]
Body(content) == [present |-> TRUE, content |-> content]
Bodies == {NoBody} \cup {Body(c) : c \in StringsUpTo(StructuralElements, MaxElements)}

\* Variant of ParagraphText that writes a mark for what is no text run.
RECURSIVE ParagraphText_Marked(_)
ParagraphText_Marked(elements) ==
  IF elements = <<>> THEN <<>>
  ELSE (IF Head(elements).kind = "textRun" THEN Head(elements).content ELSE <<"?">>)
         \o ParagraphText_Marked(Tail(elements))

\* part_004 34-38 (part_003 865-869): the inner loop.
RECURSIVE ParagraphText(_)
ParagraphText(elements) ==
  IF elements = <<>> THEN <<>>
  ELSE (IF Head(elements).kind = "textRun" /\ Head(elements).content # <<>>
        THEN Head(elements).content ELSE <<>>)
         \o ParagraphText(Tail(elements))

\* part_004 32-40 (part_003 863-871): the outer loop.
RECURSIVE ContentText(_)
ContentText(content) ==
  IF content = <<>> THEN <<>>
  ELSE (IF Head(content).kind = "paragraph" /\ Head(content).hasElements
        THEN ParagraphText(Head(content).elements) ELSE <<>>)
         \o ContentText(Tail(content))

\* part_004 30-43 (part_003 861-874)
DocumentText(body) == IF body.present THEN ContentText(body.content) ELSE <<>>

\* part_004 25-28 (part_003 856-859): getDocumentContent() up to its await.
GetDocumentContent ==
  /\ svcFn = "getDocumentContent"
  /\ svcPc = "called"
  /\ svcApi' = Append(svcApi, [method |-> "documents.get", documentId |-> svcArg.document_id])
  /\ svcPc' = "documents.get"
  /\ UNCHANGED <<svcFn, svcArg, svcLocal, svcResult>>
  /\ UNCHANGED <<dispatchVars, authVars, mainVars>>

\* part_004 30-43: the document has arrived with `body`.
GetDocumentContentReturn(body) ==
  /\ svcFn = "getDocumentContent"
  /\ svcPc = "documents.get"
  /\ svcLocal' = [body |-> body]
  /\ Return(DocumentText(body))
  /\ UNCHANGED <<svcFn, svcArg, svcApi>>
  /\ UNCHANGED <<dispatchVars, authVars, mainVars>>

\* ---- style application (part_003 759-854; schemas.ts 11-35) ----
\* A style descriptor gives each attribute of StyleSchema a value, or
\* "undefined" where it is left out.
RunLevel ==
  <<"bold", "italic", "underline", "strikethrough", "fontSize", "foregroundColor",
    "backgroundColor", "fontFamily">>
ParagraphLevel ==
  <<"alignment", "lineSpacing", "spaceAbove", "spaceBelow", "indentStart", "indentEnd",
    "indentFirstLine", "direction", "keepLinesTogether", "keepWithNext",
    "pageBreakBefore", "heading">>
Range(seq) == {seq[i] : i \in 1..Len(seq)}
StyleAttributes == Range(RunLevel) \cup Range(ParagraphLevel)
BooleanAttributes ==
  {"bold", "italic", "underline", "strikethrough", "keepLinesTogether", "keepWithNext",
   "pageBreakBefore"}
NumberAttributes ==
  {"fontSize", "lineSpacing", "spaceAbove", "spaceBelow", "indentStart", "indentEnd",
   "indentFirstLine"}
\* schemas.ts 11-35: the values StyleSchema lets an attribute take.
AttributeValues(a) ==
  IF a \in BooleanAttributes THEN {"false", "true"}
  ELSE IF a \in NumberAttributes THEN {"0", "12"}
  ELSE IF a \in {"foregroundColor", "backgroundColor"} THEN {"rgb"}
  ELSE IF a = "fontFamily" THEN {"Arial", "Arial/700"}
  ELSE IF a = "heading" THEN {"HEADING_1"}
  ELSE IF a = "alignment" THEN {"CENTER"}
  ELSE {"RIGHT_TO_LEFT"}
NoStyle == [a \in StyleAttributes |-> "undefined"]
\* The descriptors that specify at most n attributes.
RECURSIVE StylesUpTo(_)
StylesUpTo(n) ==
  IF n = 0 THEN {NoStyle}
  ELSE LET fewer == StylesUpTo(n - 1)
       IN fewer \cup UNION {{[st EXCEPT ![a] = v] : v \in AttributeValues(a)} :
                              <<st, a>> \in fewer \X StyleAttributes}

\* if (style.x): false, 0 and undefined do not pass.
Truthy(v) == v \notin {"undefined", "false", "0"}

\* Variant of TextApplies that takes every specified attribute.
TextApplies_Defined(a, v) == v # "undefined"

\* part_003 762-793: the condition on each run-level attribute.
TextApplies(a, v) == Truthy(v)

\* part_003 803-850: the condition on each paragraph-level attribute.
ParagraphApplies(a, v) ==
  IF a \in {"keepLinesTogether", "keepWithNext", "pageBreakBefore"}
  THEN v # "undefined"
  ELSE Truthy(v)

\* The field of the API's style object an attribute is written to.
FieldOf(a) ==
  IF a = "fontFamily" THEN "weightedFontFamily"
  ELSE IF a = "heading" THEN "namedStyleType"
  ELSE a
\* The value written to it.
FieldValue(a, v) ==
  IF a \in {"bold", "italic", "underline", "strikethrough"} THEN "true"
  ELSE IF a \in {"fontSize", "spaceAbove", "spaceBelow", "indentStart", "indentEnd",
                 "indentFirstLine"}
  THEN v \o " PT"
  ELSE IF a \in {"foregroundColor", "backgroundColor"} THEN "color:" \o v
  ELSE IF a = "fontFamily" THEN (IF v = "Arial" THEN "Arial/400" ELSE v)
  ELSE v

\* The fields pushed, in the order of the code, and the style object filled.
Applied(attributes, style, Applies(_, _)) ==
  LET taken == SelectSeq(attributes, LAMBDA a : Applies(a, style[a]))
  IN [fields |-> [i \in 1..Len(taken) |-> FieldOf(taken[i])],
      style |-> [f \in {FieldOf(a) : a \in Range(taken)} |->
                  LET a == CHOOSE b \in Range(taken) : FieldOf(b) = f
                  IN FieldValue(a, style[a])]]
\* part_003 759-799
ApplyTextStyle(style) == Applied(RunLevel, style, TextApplies)
\* part_003 801-854
ApplyParagraphStyle(style) == Applied(ParagraphLevel, style, ParagraphApplies)

\* Array.prototype.join(',')
RECURSIVE Join(_)
Join(fields) ==
  IF Len(fields) <= 1 THEN fields
  ELSE <<Head(fields), ",">> \o Join(Tail(fields))

\* ---- updateDocument (part_003 877-993) ----
NoFields == [f \in {} |-> "undefined"]
DeleteContentRange(from, to) ==
  [kind |-> "deleteContentRange", segment |-> "body", startIndex |-> from,
   endIndex |-> to, text |-> <<>>, style |-> NoFields, fields |-> <<>>]
\* insertText with location {segmentId, index}; the body has no segmentId.
InsertTextIn(segment, index, text) ==
  [kind |-> "insertText", segment |-> segment, startIndex |-> index,
   endIndex |-> index, text |-> text, style |-> NoFields, fields |-> <<>>]
InsertText(index, text) == InsertTextIn("body", index, text)
UpdateTextStyle(from, to, style, fields) ==
  [kind |-> "updateTextStyle", segment |-> "body", startIndex |-> from,
   endIndex |-> to, text |-> <<>>, style |-> style, fields |-> fields]
UpdateParagraphStyle(from, to, style, fields) ==
  [kind |-> "updateParagraphStyle", segment |-> "body", startIndex |-> from,
   endIndex |-> to, text |-> <<>>, style |-> style, fields |-> fields]
\* insertPageBreak, createHeader and createFooter carry a location or a type.
InsertPageBreak(index) ==
  [kind |-> "insertPageBreak", segment |-> "body", startIndex |-> index,
   endIndex |-> index, text |-> <<>>, style |-> NoFields, fields |-> <<>>]
CreateSegment(kind, type) ==
  [kind |-> kind, segment |-> type, startIndex |-> 1, endIndex |-> 1, text |-> <<>>,
   style |-> NoFields, fields |-> <<>>]

\* part_003 563-642: addCoverPageRequests().  An absent subtitle or date is
\* the empty string (both are falsy).
CenteredAs(namedStyleType) ==
  [f \in {"namedStyleType", "alignment"} |->
     IF f = "alignment" THEN "CENTER" ELSE namedStyleType]
CoverPageRequests(coverPage) ==
  LET afterTitle == 1 + Len(coverPage.title) + 1
      afterSubtitle ==
        IF coverPage.subtitle # <<>> THEN afterTitle + Len(coverPage.subtitle) + 1
        ELSE afterTitle
      afterDate ==
        IF coverPage.date # <<>> THEN afterSubtitle + Len(coverPage.date) + 2
        ELSE afterSubtitle
  IN <<InsertText(1, coverPage.title \o <<"\n">>),
       UpdateParagraphStyle(1, afterTitle, CenteredAs("TITLE"),
                            <<"namedStyleType", ",", "alignment">>)>>
     \o (IF coverPage.subtitle # <<>>
         THEN <<InsertText(afterTitle, coverPage.subtitle \o <<"\n">>),
                UpdateParagraphStyle(afterTitle, afterSubtitle, CenteredAs("SUBTITLE"),
                                     <<"namedStyleType", ",", "alignment">>)>>
         ELSE <<>>)
     \o (IF coverPage.date # <<>>
         THEN <<InsertText(afterSubtitle, coverPage.date \o <<"\n", "\n">>),
                UpdateParagraphStyle(afterSubtitle, afterDate,
                                     [f \in {"alignment"} |-> "CENTER"], <<"alignment">>)>>
         ELSE <<>>)
     \o <<InsertPageBreak(afterDate)>>

\* part_003 644-679: addHeaderRequests()
HeaderRequests(headers) ==
  <<CreateSegment("createHeader", "DEFAULT")>>
  \o (IF headers.default # <<>>
      THEN <<InsertTextIn("header", 0, headers.default)>> ELSE <<>>)
  \o (IF headers.firstPage # <<>>
      THEN <<CreateSegment("createHeader", "FIRST_PAGE"),
             InsertTextIn("first_header", 0, headers.firstPage)>>
      ELSE <<>>)

\* part_003 681-696: addFooterRequests()
FooterRequests(footer) ==
  <<CreateSegment("createFooter", "DEFAULT"), InsertTextIn("footer", 0, footer)>>

\* Variant of BodyStartIndex that counts the text inserted into the body only.
RECURSIVE BodyStartIndex_BodyOnly(_)
BodyStartIndex_BodyOnly(requests) ==
  IF requests = <<>> THEN 1
  ELSE BodyStartIndex_BodyOnly(Tail(requests))
         + (IF Head(requests).kind = "insertText" /\ Head(requests).segment = "body"
            THEN Len(Head(requests).text) ELSE 0)

\* part_003 701-711: currentIndex starts at 1 and grows by the text length of
\* every insertText request pushed so far, whatever its segment.
RECURSIVE BodyStartIndex(_)
BodyStartIndex(requests) ==
  IF requests = <<>> THEN 1
  ELSE BodyStartIndex(Tail(requests))
         + (IF Head(requests).kind = "insertText" THEN Len(Head(requests).text) ELSE 0)

\* part_003 714-751: the requests of one body section at currentIndex.
SectionRequests(currentIndex, section) ==
  <<InsertText(currentIndex, section.text)>>
  \o (IF section.hasStyle /\ ApplyTextStyle(section.style).fields # <<>>
      THEN <<UpdateTextStyle(currentIndex, currentIndex + Len(section.text),
               ApplyTextStyle(section.style).style,
               Join(ApplyTextStyle(section.style).fields))>>
      ELSE <<>>)
  \o (IF section.hasStyle /\ ApplyParagraphStyle(section.style).fields # <<>>
      THEN <<UpdateParagraphStyle(currentIndex, currentIndex + Len(section.text),
               ApplyParagraphStyle(section.style).style,
               Join(ApplyParagraphStyle(section.style).fields))>>
      ELSE <<>>)

\* part_003 713-755: the loop over the body sections.
RECURSIVE SectionsFrom(_, _)
SectionsFrom(currentIndex, body) ==
  IF body = <<>> THEN <<>>
  ELSE SectionRequests(currentIndex, Head(body))
         \o SectionsFrom(currentIndex + Len(Head(body).text), Tail(body))

\* part_003 698-757: addBodyContentRequests(requests, body)
BodyContentRequests(requests, body) == SectionsFrom(BodyStartIndex(requests), body)

\* part_003 965-984: the descriptor branch of updateDocument().
DescriptorRequests(content) ==
  LET cover == IF content.hasCoverPage THEN CoverPageRequests(content.coverPage) ELSE <<>>
      headers == IF content.hasHeaders THEN HeaderRequests(content.headers) ELSE <<>>
      footer == IF content.footer # <<>> THEN FooterRequests(content.footer) ELSE <<>>
      before == cover \o headers \o footer
  IN before \o (IF content.hasBody THEN BodyContentRequests(before, content.body) ELSE <<>>)

\* The content given: a string, a section {text, style?}, or a descriptor
\* {coverPage?, headers?, footer?, body?}.
StringContent(text) == [kind |-> "string", text |-> text, hasStyle |-> FALSE, style |-> NoStyle]
Section(text) == [kind |-> "section", text |-> text, hasStyle |-> FALSE, style |-> NoStyle]
StyledSection(text, style) ==
  [kind |-> "section", text |-> text, hasStyle |-> TRUE, style |-> style]
NoCoverPage == [title |-> <<>>, subtitle |-> <<>>, date |-> <<>>]
NoHeaders == [default |-> <<>>, firstPage |-> <<>>]
Descriptor(hasCoverPage, coverPage, hasHeaders, headers, footer, hasBody, body) ==
  [kind |-> "descriptor", hasCoverPage |-> hasCoverPage, coverPage |-> coverPage,
   hasHeaders |-> hasHeaders, headers |-> headers, footer |-> footer,
   hasBody |-> hasBody, body |-> body]

\* part_003 900-955: the requests that follow the delete.
ContentRequests(content) ==
  IF content.kind = "string"
  THEN <<InsertText(1, content.text),
         UpdateParagraphStyle(1, Len(content.text) + 1,
           [f \in {"namedStyleType"} |-> "NORMAL_TEXT"], <<"namedStyleType">>)>>
  ELSE IF content.kind = "descriptor" THEN DescriptorRequests(content)
  ELSE <<InsertText(1, content.text)>>
         \o (IF content.hasStyle /\ ApplyTextStyle(content.style).fields # <<>>
             THEN <<UpdateTextStyle(1, Len(content.text) + 1,
                      ApplyTextStyle(content.style).style,
                      Join(ApplyTextStyle(content.style).fields))>>
             ELSE <<>>)
         \o (IF content.hasStyle /\ ApplyParagraphStyle(content.style).fields # <<>>
             THEN <<UpdateParagraphStyle(1, Len(content.text) + 1,
                      ApplyParagraphStyle(content.style).style,
                      Join(ApplyParagraphStyle(content.style).fields))>>
             ELSE <<>>)

\* part_003 877-883: updateDocument() up to its first await.
UpdateDocument ==
  /\ svcFn = "updateDocument"
  /\ svcPc = "called"
  /\ svcApi' = Append(svcApi, [method |-> "documents.get", documentId |-> svcArg.document_id])
  /\ svcPc' = "documents.get"
  /\ UNCHANGED <<svcFn, svcArg, svcLocal, svcResult>>
  /\ UNCHANGED <<dispatchVars, authVars, mainVars>>

\* part_003 885-992: the document has arrived; `lastEndIndex` is the endIndex
\* of its last structural element, 0 when there is none.  The batch is built
\* and sent.
UpdateDocumentBatch(lastEndIndex) ==
  /\ svcFn = "updateDocument"
  /\ svcPc = "documents.get"
  /\ LET endIndex == IF lastEndIndex = 0 THEN 1 ELSE lastEndIndex IN
     /\ svcLocal' = [endIndex |-> endIndex]
     /\ svcApi' = Append(svcApi,
          [method |-> "documents.batchUpdate", documentId |-> svcArg.document_id,
           requests |-> <<DeleteContentRange(1, endIndex)>> \o ContentRequests(svcArg.content)])
  /\ svcPc' = "documents.batchUpdate"
  /\ UNCHANGED <<svcFn, svcArg, svcResult>>
  /\ UNCHANGED <<dispatchVars, authVars, mainVars>>

\* part_003 986-993: batchUpdate resolves; the method returns nothing.
UpdateDocumentReturn ==
  /\ svcFn = "updateDocument"
  /\ svcPc = "documents.batchUpdate"
  /\ Return([k \in {} |-> "undefined"])
  /\ UNCHANGED <<svcFn, svcArg, svcLocal, svcApi>>
  /\ UNCHANGED <<dispatchVars, authVars, mainVars>>

\* A Docs request of the running method rejects: the method throws.
DocsReject ==
  /\ svcPc \in {"documents.get", "documents.batchUpdate"}
  /\ svcPc' = "threw"
  /\ UNCHANGED <<svcFn, svcArg, svcLocal, svcApi, svcResult>>
  /\ UNCHANGED <<dispatchVars, authVars, mainVars>>

\* ---- GoogleSheetsService (part_004 69-207) and its tool cases ----
\* A JSON value of an argument record: a number, a string, or an absent key.
Num(n) == [type |-> "number", num |-> n, str |-> ""]
Str(s) == [type |-> "string", num |-> 0, str |-> s]
Undefined == [type |-> "undefined", num |-> 0, str |-> ""]

\* schemas.ts 147 and 150: the members of the two z.enum() of the schema.
Dimensions == {"ROWS", "COLUMNS"}
Operations == {"INSERT", "DELETE", "RESIZE"}

\* The class DimensionOperationSchema's validator for key k puts value v in.
DimensionValueClass(k, v) ==
  CASE v.type = "undefined" -> "undefined"
    [] v.type = "number" -> "number"
    [] k = "dimension" /\ v.str \in Dimensions -> "enum"
    [] k = "operation" /\ v.str \in Operations -> "enum"
    [] OTHER -> "string"

\* server.ts 674: DimensionOperationSchema.parse(request.params.arguments)
ParseDimensionOperation(args) ==
  LET classes == Object([k \in DOMAIN args |-> DimensionValueClass(k, args[k])])
  IN IF ParseFails(DimensionOperationSchema, classes)
     THEN [ok |-> FALSE, input |-> NoInput]
     ELSE [ok |-> TRUE, input |-> [k \in DOMAIN DimensionOperationSchema |-> args[k]]]

\* a || b on JSON values: b when a is undefined, 0 or the empty string.
OrElse(a, b) ==
  IF a.type = "undefined" \/ (a.type = "number" /\ a.num = 0)
       \/ (a.type = "string" /\ a.str = "")
  THEN b ELSE a

\* part_004 195-206: getDimensionOperation(); the default case throws.
GetDimensionOperation(operation) ==
  CASE operation = "INSERT" -> [ok |-> TRUE, key |-> "insertDimension"]
    [] operation = "DELETE" -> [ok |-> TRUE, key |-> "deleteDimension"]
    [] operation = "RESIZE" -> [ok |-> TRUE, key |-> "updateDimensionProperties"]
    [] OTHER -> [ok |-> FALSE, key |-> "Unsupported dimension operation"]

\* part_004 134-149: the request dimensionOperation() builds.  The spread
\* ...(operation === "RESIZE" && { size }) adds the key size, whatever its
\* value, for RESIZE and nothing otherwise.
DimensionRequest(input) ==
  [method |-> "spreadsheets.batchUpdate",
   spreadsheetId |-> input.spreadsheetId,
   key |-> GetDimensionOperation(input.operation.str).key,
   range |-> [sheetId |-> input.sheetId, dimension |-> input.dimension,
              startIndex |-> input.startIndex,
              endIndex |-> OrElse(input.endIndex, Num(input.startIndex.num + 1))],
   hasSize |-> (input.operation.str = "RESIZE"),
   size |-> IF input.operation.str = "RESIZE" THEN input.size ELSE Undefined]

\* server.ts 673-675 with part_004 131-151: the sheets_dimension_operation
\* case parses the arguments and calls dimensionOperation(), which builds the
\* request and sends it; a ZodError or the throw of getDimensionOperation()
\* ends the case.
DimensionOperationCase ==
  /\ svcFn = "sheets_dimension_operation"
  /\ svcPc = "called"
  /\ LET r == ParseDimensionOperation(svcArg) IN
     IF ~r.ok
     THEN /\ svcPc' = "threw"
          /\ svcLocal' = [error |-> "ZodError"]
          /\ UNCHANGED svcApi
     ELSE IF ~GetDimensionOperation(r.input.operation.str).ok
     THEN /\ svcPc' = "threw"
          /\ svcLocal' = [error |-> "Unsupported dimension operation"]
          /\ UNCHANGED svcApi
     ELSE /\ svcPc' = "spreadsheets.batchUpdate"
          /\ svcLocal' = [input |-> r.input]
          /\ svcApi' = Append(svcApi, DimensionRequest(r.input))
  /\ UNCHANGED <<svcFn, svcArg, svcResult>>
  /\ UNCHANGED <<dispatchVars, authVars, mainVars>>

\* String.prototype.split(sep) with a one-character separator.
RECURSIVE Split(_, _)
Split(str, sep) ==
  IF \A i \in 1..Len(str) : str[i] # sep THEN <<str>>
  ELSE LET i == CHOOSE j \in 1..Len(str) :
                  str[j] = sep /\ \A h \in 1..(j - 1) : str[h] # sep
       IN <<SubSeq(str, 1, i - 1)>> \o Split(SubSeq(str, i + 1, Len(str)), sep)

\* Variant of GetGridRange that takes the sheet from the parts of the range.
GetGridRange_BySheet(a1Range) ==
  LET parts == Split(a1Range, "!") IN
  [sheetId |-> Len(parts) - 1, startRowIndex |-> 0, endRowIndex |-> 1000,
   startColumnIndex |-> 0, endColumnIndex |-> 26]

\* part_004 182-193: getGridRange(); sheetName and cellRange are not used.
GetGridRange(a1Range) ==
  LET parts == Split(a1Range, "!") IN
  [sheetId |-> 0, startRowIndex |-> 0, endRowIndex |-> 1000,
   startColumnIndex |-> 0, endColumnIndex |-> 26]

\* part_004 113-128: the request of formatCells().
RepeatCell(spreadsheetId, range, format) ==
  [method |-> "spreadsheets.batchUpdate", spreadsheetId |-> spreadsheetId,
   key |-> "repeatCell", range |-> GetGridRange(range),
   userEnteredFormat |-> format, fields |-> "userEnteredFormat", mergeType |-> NoValue]
\* part_004 157-169: the request of mergeCells().
MergeCellsRequest(spreadsheetId, range) ==
  [method |-> "spreadsheets.batchUpdate", spreadsheetId |-> spreadsheetId,
   key |-> "mergeCells", range |-> GetGridRange(range),
   userEnteredFormat |-> NoValue, fields |-> NoValue, mergeType |-> "MERGE_ALL"]

\* part_004 110-128: formatCells() up to its await.
FormatCells ==
  /\ svcFn = "formatCells"
  /\ svcPc = "called"
  /\ svcApi' = Append(svcApi, RepeatCell(svcArg.spreadsheetId, svcArg.range, svcArg.format))
  /\ svcPc' = "spreadsheets.batchUpdate"
  /\ UNCHANGED <<svcFn, svcArg, svcLocal, svcResult>>
  /\ UNCHANGED <<dispatchVars, authVars, mainVars>>

\* part_004 154-169: mergeCells() up to its await.
MergeCells ==
  /\ svcFn = "mergeCells"
  /\ svcPc = "called"
  /\ svcApi' = Append(svcApi, MergeCellsRequest(svcArg.spreadsheetId, svcArg.range))
  /\ svcPc' = "spreadsheets.batchUpdate"
  /\ UNCHANGED <<svcFn, svcArg, svcLocal, svcResult>>
  /\ UNCHANGED <<dispatchVars, authVars, mainVars>>

\* spreadsheets.batchUpdate resolves: the method returns nothing (and the
\* sheets_dimension_operation case its success response, server.ts 676-679).
SheetsResolve ==
  /\ svcPc = "spreadsheets.batchUpdate"
  /\ Return(IF svcFn = "sheets_dimension_operation"
            THEN [isError |-> FALSE,
                  text |-> <<svcLocal.input.operation.str, " operation completed successfully">>]
            ELSE [k \in {} |-> "undefined"])
  /\ UNCHANGED <<svcFn, svcArg, svcLocal, svcApi>>
  /\ UNCHANGED <<dispatchVars, authVars, mainVars>>

\* spreadsheets.batchUpdate rejects: the method throws.
SheetsReject ==
  /\ svcPc = "spreadsheets.batchUpdate"
  /\ svcPc' = "threw"
  /\ UNCHANGED <<svcFn, svcArg, svcLocal, svcApi, svcResult>>
  /\ UNCHANGED <<dispatchVars, authVars, mainVars>>

\* ---- the tool list (server.ts 103-535): the declared input schemas ----
\* A property is [type, required]; "stringOrObject" is the anyOf of
\* docs_update_content's content (a string, a section, a descriptor).
DeclaredSchema ==
  [search |-> [query |-> Fld("string", TRUE), page_size |-> Fld("number", FALSE)],
   drive_create_folder |->
     [name |-> Fld("string", TRUE), parents |-> Fld("array", FALSE),
      description |-> Fld("string", FALSE)],
   drive_create_file |->
     [name |-> Fld("string", TRUE), mimeType |-> Fld("string", TRUE),
      parents |-> Fld("array", FALSE), description |-> Fld("string", FALSE),
      content |-> Fld("string", TRUE)],
   drive_update_file |->
     [fileId |-> Fld("string", TRUE), content |-> Fld("string", TRUE),
      mimeType |-> Fld("string", TRUE)],
   drive_get_file |-> [fileId |-> Fld("string", TRUE), fields |-> Fld("string", FALSE)],
   drive_list_files |->
     [query |-> Fld("string", FALSE), pageSize |-> Fld("number", FALSE),
      fields |-> Fld("string", FALSE), orderBy |-> Fld("string", FALSE)],
   drive_update_metadata |->
     [fileId |-> Fld("string", TRUE), name |-> Fld("string", FALSE),
      description |-> Fld("string", FALSE), mimeType |-> Fld("string", FALSE),
      addParents |-> Fld("array", FALSE), removeParents |-> Fld("array", FALSE)],
   docs_create |-> [title |-> Fld("string", TRUE), content |-> Fld("object", FALSE)],
   docs_get_content |-> [document_id |-> Fld("string", TRUE)],
   docs_update_content |->
     [document_id |-> Fld("string", TRUE), content |-> Fld("stringOrObject", TRUE)],
   sheets_create |-> [title |-> Fld("string", TRUE), sheets |-> Fld("array", FALSE)],
   sheets_update_values |->
     [spreadsheetId |-> Fld("string", TRUE), range |-> Fld("string", TRUE),
      values |-> Fld("array", TRUE), majorDimension |-> Fld("enum", FALSE)],
   sheets_format_cells |->
     [spreadsheetId |-> Fld("string", TRUE), range |-> Fld("string", TRUE),
      format |-> Fld("object", TRUE)],
   sheets_dimension_operation |->
     [spreadsheetId |-> Fld("string", TRUE), sheetId |-> Fld("number", TRUE),
      dimension |-> Fld("enum", TRUE), startIndex |-> Fld("number", TRUE),
      endIndex |-> Fld("number", FALSE), operation |-> Fld("enum", TRUE),
      size |-> Fld("number", FALSE)],
   sheets_merge_cells |->
     [spreadsheetId |-> Fld("string", TRUE), range |-> Fld("string", TRUE)],
   sheets_get_values |->
     [spreadsheetId |-> Fld("string", TRUE), range |-> Fld("string", TRUE),
      majorDimension |-> Fld("enum", FALSE)]]

\* JSON Schema's type keywords on the value classes.
DeclaredAccepts(type, v) ==
  CASE type = "string" -> v \in {"string", "enum"}
    [] type = "number" -> v = "number"
    [] type = "enum" -> v = "enum"
    [] type = "array" -> v = "array"
    [] type = "object" -> v = "object"
    [] type = "stringOrObject" -> v \in {"string", "enum", "object"}
    [] OTHER -> FALSE

\* An argument record conforms to the declared schema of tool `name`: it is
\* an object, has the required keys, and each declared key it has is of the
\* declared type.
DeclaredConforms(name, args) ==
  /\ args.isObject
  /\ \A k \in DOMAIN DeclaredSchema[name] :
       IF ArgOf(args, k) = "undefined"
       THEN ~DeclaredSchema[name][k].required
       ELSE DeclaredAccepts(DeclaredSchema[name][k].type, ArgOf(args, k))

NextDispatch ==
  \/ \E name \in ToolNames : \E args \in ArgumentsFor(name) : CallTool(name, args)
  \/ \E result \in ApiResults : AdapterResolve(result)
  \/ \E error \in ApiErrors : AdapterReject(error)
  \/ NextRequest

\* The AuthService steps of the callers in S.
NextAuthOf(S) ==
  \/ \E p \in S : Authenticate(p)
  \/ \E p \in S : LoadSavedCredentials(p)
  \/ \E p \in S : \E ioError \in BOOLEAN : LoadReadCredentials(p, ioError)
  \/ \E p \in S : \E ioError \in BOOLEAN : LoadReadOAuth(p, ioError)
  \/ \E p \in S : AuthenticateAfterLoad(p)
  \/ \E p \in S : \E resp \in CredentialRecords : \E mkdirError \in BOOLEAN :
       RefreshResolve(p, resp, mkdirError)
  \/ \E p \in S : RefreshReject(p)
  \/ \E p \in S : SaveOpen(p)
  \/ \E p \in S : SaveResolve(p)
  \/ \E p \in S : SaveReject(p)
  \/ \E p \in S : PerformFullAuthentication(p)
  \/ \E p \in S : \E ioError \in BOOLEAN : FullAuthReadOAuth(p, ioError)
  \/ \E p \in S : \E creds \in CredentialRecords : \E mkdirError \in BOOLEAN :
       FullAuthFlowResolve(p, creds, mkdirError)
  \/ \E p \in S : FullAuthFlowReject(p)
  \/ \E p \in S : CallerContinues(p)
  \/ Tick

NextAuth == NextAuthOf(Callers)

Init == InitDispatch /\ InitAuth /\ InitMain /\ InitService
Next == NextDispatch \/ NextAuth
Spec == Init /\ [][Next]_vars

\* The dispatcher alone: the AuthService stays as constructed.
InitDispatchOnly == Init /\ credFile = AbsentFile /\ oauthFile = "absent"
SpecDispatch == InitDispatchOnly /\ [][NextDispatch]_vars

\* The AuthService alone (no tool call is made), its operations called one
\* after the other by one caller that awaits each result before the next call.
NextAuthSequential == NextAuthOf({1})
SpecAuth == Init /\ [][NextAuthSequential]_vars

\* The AuthService alone, its callers interleaving at every await.
SpecAuthInterleaved == Init /\ [][NextAuth]_vars

\* The AuthService after a first interactive authorization: no credential
\* file yet, so every credential file a later load reads was written by
\* saveCredentials().
InitRoundTrip == Init /\ credFile = AbsentFile /\ oauthFile = "ok"
\* The process ends with no operation pending and is started again: a new
\* AuthService is constructed (part_003 17-18, auth and credentials null);
\* the files stay as they are.
Restart ==
  /\ \A p \in Callers : apc[p] \in {"idle", "done"}
  /\ auth # NullClient
  /\ auth' = NullClient
  /\ credentials' = Null
  /\ apc' = [p \in Callers |-> "idle"]
  /\ op' = [p \in Callers |-> NoValue]
  /\ local' = [p \in Callers |-> NoLocal]
  /\ outcome' = [p \in Callers |-> NoOutcome]
  /\ hist' = [p \in Callers |-> NoHist]
  /\ UNCHANGED <<credFile, oauthFile, now>>
  /\ UNCHANGED nonAuthVars
NextRoundTrip == NextAuthSequential \/ Restart
SpecRoundTrip == InitRoundTrip /\ [][NextRoundTrip]_vars

\* The service as index.ts 19 leaves it (credentials loaded from the file,
\* here a record with a refresh token), then authenticate() called once by
\* each of two call chains that interleave at every await.
InitRefreshRace ==
  /\ InitDispatch
  /\ InitMain
  /\ InitService
  /\ \E c \in CredentialRecords :
       /\ c.refresh_token # 0
       /\ auth = Client(1, c)
       /\ credentials = c
       /\ credFile = FileOf(c)
  /\ oauthFile = "ok"
  /\ now = 0
  /\ apc = [p \in Callers |-> "idle"]
  /\ op = [p \in Callers |-> NoValue]
  /\ local = [p \in Callers |-> NoLocal]
  /\ outcome = [p \in Callers |-> NoOutcome]
  /\ hist = [p \in Callers |-> NoHist]
NextRefreshRace ==
  \/ \E p \in Callers : Authenticate(p)
  \/ \E p \in Callers : \E resp \in CredentialRecords : \E mkdirError \in BOOLEAN :
       RefreshResolve(p, resp, mkdirError)
  \/ \E p \in Callers : RefreshReject(p)
  \/ \E p \in Callers : SaveOpen(p)
  \/ \E p \in Callers : SaveResolve(p)
  \/ \E p \in Callers : SaveReject(p)
SpecRefreshRace == InitRefreshRace /\ [][NextRefreshRace]_vars

\* Everything but the service call as constructed.
InitOthers ==
  /\ InitDispatch
  /\ InitAuth
  /\ credFile = AbsentFile
  /\ oauthFile = "absent"
  /\ InitMain

\* searchFiles() called with every query up to MaxQueryLen characters.
SearchInputs == [query : StringsUpTo(QueryChars, MaxQueryLen), page_size : {10}]
InitSearch == InitOthers /\ InitCall("searchFiles", SearchInputs)
NextSearch ==
  \/ SearchFiles
  \/ \E list \in FileLists : SearchFilesReturn(list)
  \/ DriveReject
SpecSearch == InitSearch /\ [][NextSearch]_vars

\* getFileContent() called for a file of every mime type.
FileIds == {<<"f1">>, <<"f2">>}
ExportedTexts == {<<>>, <<"U+35", "U+44">>}
DownloadedBytes == {<<>>, <<104>>, <<104, 105>>, <<77, 97, 110>>, <<255, 104>>}
InitFileContent == InitOthers /\ InitCall("getFileContent", [fileId : FileIds])
NextFileContent ==
  \/ GetFileContent
  \/ \E mimeType \in MimeTypes : GetFileContentMetadata(mimeType)
  \/ \E data \in ExportedTexts : GetFileContentExported(data)
  \/ \E bytes \in DownloadedBytes : GetFileContentDownloaded(bytes)
  \/ DriveReject
SpecFileContent == InitFileContent /\ [][NextFileContent]_vars

\* The resource handlers: a listing, and reads of the URIs a listing gives
\* and of other URIs a client may send.
NoParams == [uri |-> <<>>]
ResourceUris ==
  {ResourceUri(DriveFile(i).id) : i \in {1, 2, 11}}
    \cup {<<"f1">>, <<"gdrive:///", "gdrive:///", "f1">>}
InitResources ==
  /\ InitOthers
  /\ \/ InitCall("listResources", {NoParams})
     \/ InitCall("readResource", [uri : ResourceUris])
NextResources ==
  \/ ListResources
  \/ \E list \in FileLists : SearchFilesReturn(list)
  \/ ReadResource
  \/ \E mimeType \in MimeTypes : GetFileContentMetadata(mimeType)
  \/ \E data \in ExportedTexts : GetFileContentExported(data)
  \/ \E bytes \in DownloadedBytes : GetFileContentDownloaded(bytes)
  \/ DriveReject
SpecResources == InitResources /\ [][NextResources]_vars

\* getDocumentContent() on every document body of up to MaxElements
\* structural elements.
InitDocContent == InitOthers /\ InitCall("getDocumentContent", [document_id : {"doc1"}])
NextDocContent ==
  \/ GetDocumentContent
  \/ \E body \in Bodies : GetDocumentContentReturn(body)
  \/ DocsReject
SpecDocContent == InitDocContent /\ [][NextDocContent]_vars

\* updateDocument() with a string, a bare section, and a section with every
\* style descriptor of up to MaxStyleAttrs attributes.
Texts == {<<>>, <<"H", "e", "l", "l", "o">>}
Contents ==
  {StringContent(t) : t \in Texts} \cup {Section(t) : t \in Texts}
    \cup {StyledSection(t, st) : t \in Texts, st \in StylesUpTo(MaxStyleAttrs)}
LastEndIndexes == {0, 2, 12}
InitDocUpdate ==
  InitOthers /\ InitCall("updateDocument", [document_id : {"doc1"}, content : Contents])
NextDocUpdate ==
  \/ UpdateDocument
  \/ \E lastEndIndex \in LastEndIndexes : UpdateDocumentBatch(lastEndIndex)
  \/ UpdateDocumentReturn
  \/ DocsReject
SpecDocUpdate == InitDocUpdate /\ [][NextDocUpdate]_vars

\* The process from its start to its exit or to the connected server.
ProcessArgs == {<<>>, <<"auth">>, <<"--verbose">>}
InitProcess ==
  /\ InitDispatch
  /\ InitAuth
  /\ \E args \in ProcessArgs : InitMainWith(args)
  /\ InitService
NextProcess ==
  \/ MainStart
  \/ \E ioError \in BOOLEAN : FullAuthReadOAuth(1, ioError)
  \/ \E creds \in CredentialRecords : \E mkdirError \in BOOLEAN :
       FullAuthFlowResolve(1, creds, mkdirError)
  \/ FullAuthFlowReject(1)
  \/ SaveOpen(1)
  \/ SaveResolve(1)
  \/ SaveReject(1)
  \/ \E ioError \in BOOLEAN : LoadReadCredentials(1, ioError)
  \/ \E ioError \in BOOLEAN : LoadReadOAuth(1, ioError)
  \/ MainAfterFullAuth
  \/ MainAfterLoad
  \/ MainConnectResolve
  \/ MainConnectReject
SpecProcess == InitProcess /\ [][NextProcess]_vars

\* The Sheets adapter: sheets_dimension_operation with every argument record
\* over indices up to MaxIndex, and formatCells / mergeCells with range
\* strings that name different sheets and cells.
DimensionArguments ==
  [spreadsheetId : {Str("s1")},
   sheetId : {Num(0), Num(7)},
   dimension : {Str("ROWS"), Str("COLUMNS")},
   startIndex : {Num(i) : i \in 0..MaxIndex},
   endIndex : {Undefined} \cup {Num(i) : i \in 0..(MaxIndex + 1)},
   operation : {Str("INSERT"), Str("DELETE"), Str("RESIZE"), Str("MOVE")},
   size : {Undefined, Num(0), Num(100), Str("wide")}]
Ranges ==
  {<<>>, <<"A", "1">>, <<"S", "1", "!", "A", "1", ":", "B", "2">>,
   <<"S", "2", "!", "C", "3">>}
Formats == {"bold", "centered"}
SpreadsheetIds == {"s1", "s2"}
InitSheets ==
  /\ InitOthers
  /\ \/ InitCall("sheets_dimension_operation", DimensionArguments)
     \/ InitCall("formatCells",
                 [spreadsheetId : SpreadsheetIds, range : Ranges, format : Formats])
     \/ InitCall("mergeCells", [spreadsheetId : SpreadsheetIds, range : Ranges])
NextSheets ==
  \/ DimensionOperationCase
  \/ FormatCells
  \/ MergeCells
  \/ SheetsResolve
  \/ SheetsReject
SpecSheets == InitSheets /\ [][NextSheets]_vars

\* The running server: main() starts it, then tool calls arrive over the
\* connected transport while time passes.  The handlers and the adapters
\* never call the AuthService (GoogleService.ensureValidAuth, base.ts 23-38,
\* has no caller), so the only AuthService operations are those of main().
GoodArguments(name) ==
  IF name \in Catalog
  THEN Object([k \in DOMAIN ToolSchema[name] |-> GoodValue(ToolSchema[name][k].type)])
  ELSE Object([k \in {} |-> "undefined"])
ServeArguments(name) == {NotObject, GoodArguments(name)}
\* index.ts 26-29: requests reach the handler once the transport is connected.
ServeCallTool(name, args) == server = "connected" /\ CallTool(name, args)
NextServe ==
  \/ NextProcess
  \/ \E name \in ToolNames : \E args \in ServeArguments(name) : ServeCallTool(name, args)
  \/ \E result \in ApiResults : AdapterResolve(result)
  \/ \E error \in ApiErrors : AdapterReject(error)
  \/ NextRequest
  \/ Tick
SpecServe == InitProcess /\ [][NextServe]_vars

\* The dispatcher called with argument records built from the declared
\* schemas: each declared key absent, of the declared type, or of another.
DeclaredValue(type) == IF type = "stringOrObject" THEN "string" ELSE type
DeclaredCandidate(type, i) ==
  CASE i = 0 -> "undefined" [] i = 1 -> DeclaredValue(type) [] OTHER -> BadValue(type)
DeclaredArguments(name) ==
  LET schema == DeclaredSchema[name] IN
  {NotObject} \cup
  { Object([k \in DOMAIN schema |-> DeclaredCandidate(schema[k].type, pick[k])]) :
      pick \in [DOMAIN schema -> 0..2] }
NextDeclared ==
  \/ \E name \in Catalog : \E args \in DeclaredArguments(name) : CallTool(name, args)
  \/ \E result \in ApiResults : AdapterResolve(result)
  \/ \E error \in ApiErrors : AdapterReject(error)
  \/ NextRequest
SpecDeclared == InitDispatchOnly /\ [][NextDeclared]_vars

\* updateDocument() with a content descriptor: with and without cover page,
\* headers and footer, and a body of up to MaxSections sections.
CoverPages ==
  {[title |-> <<"T">>, subtitle |-> <<>>, date |-> <<>>],
   [title |-> <<"T", "i">>, subtitle |-> <<"S">>, date |-> <<"2", "4">>]}
HeaderSets ==
  {NoHeaders, [default |-> <<"H", "d">>, firstPage |-> <<>>],
   [default |-> <<"H", "d">>, firstPage |-> <<"F", "P", "1">>]}
Footers == {<<>>, <<"F", "t">>}
BodySections ==
  {Section(<<"a", "b">>), Section(<<>>),
   StyledSection(<<"H", "e", "l", "l", "o">>, [NoStyle EXCEPT !["bold"] = "true"]),
   StyledSection(<<"x", "y", "z">>,
                 [NoStyle EXCEPT !["italic"] = "true", !["alignment"] = "CENTER"])}
Descriptors ==
  {Descriptor(FALSE, NoCoverPage, hasHeaders, headers, footer, hasBody, body) :
     hasHeaders \in BOOLEAN, headers \in HeaderSets, footer \in Footers,
     hasBody \in BOOLEAN, body \in StringsUpTo(BodySections, MaxSections)}
  \cup
  {Descriptor(TRUE, coverPage, hasHeaders, headers, footer, hasBody, body) :
     coverPage \in CoverPages, hasHeaders \in BOOLEAN, headers \in HeaderSets,
     footer \in Footers, hasBody \in BOOLEAN,
     body \in StringsUpTo(BodySections, MaxSections)}
InitDocDescriptor ==
  InitOthers /\ InitCall("updateDocument", [document_id : {"doc1"}, content : Descriptors])
SpecDocDescriptor == InitDocDescriptor /\ [][NextDocUpdate]_vars

(***************************************************************************)
(* Properties of the call-tool handler, checked under SpecDispatch.        *)
(***************************************************************************)
InText(text, part) == \E i \in 1..Len(text) : text[i] = part
Handling == dpc # "idle"

\* C1: for every tool name outside the catalog and any argument record, the
\* handler returns a response with isError = true; no exception leaves the
\* handler and no adapter is called.
C1_UnknownToolIsError ==
  (Handling /\ request.name \notin Catalog) =>
    /\ dpc = "returned"
    /\ response.isError
    /\ adapterCalls = 0
C1_Witness ==
  /\ dpc = "returned"
  /\ request.name = "drive_delete_file"
  /\ request.arguments.isObject
  /\ response.isError

\* C2: an error raised by the adapter method or the external API during a
\* call of a catalog tool is caught once by the handler and becomes a response
\* with isError = true whose text holds the error's message and, when the
\* error has a cause, the serialized cause; it does not leave the handler.
C2_AdapterErrorsBecomeResponses ==
  (adapterError # NoError) =>
    /\ dpc = "returned"
    /\ request.name \in Catalog
    /\ catches = 1
    /\ thrown = adapterError
    /\ response.isError
    /\ Len(response.content) = 1
    /\ adapterError.isError => InText(response.content[1].text, adapterError.message)
    /\ adapterError.hasCause =>
         InText(response.content[1].text, JSONStringify(adapterError.cause))
C2_Witness ==
  /\ dpc = "returned"
  /\ adapterError = MkCaused("api error", "payload")
  /\ response.isError
  /\ InText(response.content[1].text, "json:payload")

\* C3: every response of the handler holds exactly one content block, of type
\* text; isError is false exactly when the adapter call completed, and true
\* exactly when validation, dispatch or the adapter failed.
C3_Completed == adapterCalls = 1 /\ adapterError = NoError
C3_Failed ==
  \/ request.name \notin Catalog
  \/ ParseFails(ToolSchema[request.name], request.arguments)
  \/ adapterError # NoError
C3_OneTextBlock ==
  (dpc = "returned") =>
    /\ Len(response.content) = 1
    /\ response.content[1].type = "text"
    /\ (~response.isError) <=> C3_Completed
    /\ response.isError <=> C3_Failed
C3_Witness ==
  /\ dpc = "returned"
  /\ request.name = "drive_get_file"
  /\ adapterError = MkCaused("api error", "payload")
  /\ Len(response.content) = 1
  /\ response.isError

\* C4: validation comes before the adapter: when the argument record does not
\* match the tool's schema the call ends as a failure (isError = true) and
\* neither an adapter method nor the external API is called for it.
C4_ValidationBeforeAdapter ==
  (Handling /\ request.name \in Catalog
     /\ ParseFails(ToolSchema[request.name], request.arguments)) =>
    /\ dpc = "returned"
    /\ response.isError
    /\ adapterCalls = 0
    /\ apiCalls = 0
C4_Witness ==
  /\ dpc = "returned"
  /\ request.name = "sheets_dimension_operation"
  /\ request.arguments.isObject
  /\ request.arguments.fields.spreadsheetId = "string"
  /\ request.arguments.fields.operation = "string"
  /\ response.isError
  /\ adapterCalls = 0

(***************************************************************************)
(* Properties of AuthService, checked under SpecAuth.                      *)
(***************************************************************************)
\* The record the expiry check of caller p read was more than 5 minutes from
\* expiry at the time of the check.
FarFromExpiry(p) ==
  /\ hist[p].checkedCreds.expiry_date # 0
  /\ hist[p].checkedCreds.expiry_date > hist[p].checkedNow + 5 * 60 * 1000
Checked(p) == op[p] = "authenticate" /\ hist[p].checked

\* C5: when the held record's expiry_date is more than 5 minutes after the
\* current time, authenticate() returns the client that is held, without
\* invoking the refresh endpoint and without writing the credential file.
C5_ValidTokenReturnsHeldClient ==
  \A p \in Callers :
    (Checked(p) /\ FarFromExpiry(p)) =>
      /\ apc[p] = "done"
      /\ outcome[p] = Returned(hist[p].checkedAuth)
      /\ outcome[p].client = auth.id
      /\ hist[p].refreshes = 0
      /\ hist[p].writes = 0
C5_Witness ==
  \E p \in Callers :
    /\ Checked(p) /\ FarFromExpiry(p)
    /\ hist[p].entryHeld
    /\ outcome[p].kind = "returned"
    /\ outcome[p].client = auth.id

\* C6: when the held record is at or within 5 minutes of expiry (or has no
\* expiry_date) and has a refresh token, one authenticate() invokes the
\* refresh endpoint exactly once, and when it returns the client the stored
\* credentials are the refreshed ones and the credential file holds them.
C6_NearExpiryRefreshesOnce ==
  \A p \in Callers :
    (Checked(p) /\ ~FarFromExpiry(p) /\ hist[p].checkedCreds.refresh_token # 0) =>
      /\ hist[p].refreshes = 1
      /\ (apc[p] = "done" /\ outcome[p].kind = "returned") =>
           /\ credentials = hist[p].refreshed
           /\ credFile = FileOf(hist[p].refreshed)
           /\ hist[p].writes = 1
           /\ outcome[p].client = auth.id
C6_Witness ==
  \E p \in Callers :
    /\ Checked(p) /\ ~FarFromExpiry(p)
    /\ hist[p].checkedCreds.expiry_date = hist[p].checkedNow + 5 * 60 * 1000
    /\ hist[p].checkedCreds.refresh_token # 0
    /\ apc[p] = "done" /\ outcome[p].kind = "returned"
    /\ hist[p].refreshes = 1 /\ hist[p].writes = 1
    /\ hist[p].refreshed.access_token # hist[p].checkedCreds.access_token
    /\ credFile = FileOf(hist[p].refreshed)

\* C7: when the held record has no refresh token and is not more than 5
\* minutes from expiry, authenticate() fails with NO_REFRESH_TOKEN without
\* invoking the refresh endpoint; and as long as the stored credentials are
\* not replaced, the service stays in that condition, so every later
\* authenticate() fails the same way.
C7_Unusable ==
  /\ auth.id # 0 /\ ~credentials.isNull
  /\ credentials.refresh_token = 0
  /\ ~(credentials.expiry_date # 0 /\ credentials.expiry_date > now + 5 * 60 * 1000)
C7_FailsNow ==
  \A p \in Callers :
    (Checked(p) /\ ~FarFromExpiry(p) /\ hist[p].checkedCreds.refresh_token = 0) =>
      /\ apc[p] = "done"
      /\ outcome[p] = Threw("NO_REFRESH_TOKEN")
      /\ hist[p].refreshes = 0
      /\ hist[p].writes = 0
C7_FailsLater ==
  /\ (C7_Unusable /\ credentials' = credentials) => C7_Unusable'
  /\ \A p \in Callers :
       (C7_Unusable /\ apc[p] = "idle" /\ apc'[p] # "idle" /\ op'[p] = "authenticate") =>
         /\ outcome'[p] = Threw("NO_REFRESH_TOKEN")
         /\ hist'[p].refreshes = 0
         /\ credentials' = credentials
C7_NoRefreshTokenFails == [](C7_FailsNow) /\ [][C7_FailsLater]_vars
C7_Witness ==
  \E p \in Callers :
    /\ Checked(p) /\ hist[p].entryHeld
    /\ hist[p].checkedCreds.refresh_token = 0
    /\ hist[p].checkedCreds.expiry_date # 0
    /\ hist[p].checkedNow > 0
    /\ outcome[p] = Threw("NO_REFRESH_TOKEN")

C9_Original ==
  \A p \in Callers :
    (op[p] = "loadSavedCredentials" /\ apc[p] = "done") =>
      /\ (oauthFile = "absent") => outcome[p] = Threw("NO_OAUTH_KEYS")
      /\ (credFile.state = "absent") => outcome[p] = Returned(0)

\* C9 as amended: loadSavedCredentials() returns null whenever the credential
\* file does not exist, whether or not the client-config file is there, and
\* fails with NO_OAUTH_KEYS whenever the credential file exists and the
\* client-config file is missing.
C9_NullBeforeNoOAuthKeys ==
  \A p \in Callers :
    (op[p] = "loadSavedCredentials" /\ apc[p] # "idle") =>
      /\ (credFile.state = "absent") =>
           apc[p] = "done" /\ outcome[p] = Returned(0)
      /\ (credFile.state # "absent" /\ oauthFile = "absent") =>
           apc[p] = "done" /\ outcome[p] = Threw("NO_OAUTH_KEYS")
C9_Witness ==
  \E p \in Callers :
    /\ op[p] = "loadSavedCredentials" /\ apc[p] = "done"
    /\ credFile.state = "present" /\ oauthFile = "absent"
    /\ outcome[p] = Threw("NO_OAUTH_KEYS")

\* C10: whenever writing the credential file fails, in a token refresh inside
\* authenticate() or at the end of performFullAuthentication(), the error
\* that reaches the caller has code SAVE_FAILED.
C10_SaveFailedReachesCaller ==
  \A p \in Callers :
    (apc[p] = "done" /\ hist[p].saveError # NoValue) =>
      outcome[p] = Threw("SAVE_FAILED")

\* ---------------------------------------------------------------------------
\* C11: a credential file written whole by saveCredentials() and then read by
\* loadSavedCredentials() (client-config file present) yields a client whose
\* access token, refresh token and expiry are the written ones, and
\* this.credentials equals the written record.
Loaded(p) ==
  /\ apc[p] = "done"
  /\ op[p] = "loadSavedCredentials"
  /\ outcome[p].kind = "returned"
  /\ outcome[p].client # 0
C11_RoundTrip ==
  \A p \in Callers :
    Loaded(p) =>
      /\ outcome[p].client = auth.id
      /\ \E c \in CredentialRecords : credFile = FileOf(c)
      /\ \A c \in CredentialRecords :
           credFile = FileOf(c) =>
             /\ auth.credentials.access_token = c.access_token
             /\ auth.credentials.refresh_token = c.refresh_token
             /\ auth.credentials.expiry_date = c.expiry_date
             /\ credentials = c
\* A load has returned a client for a written record that has all three
\* values, and for one that has neither refresh token nor expiry.
C11_Witness ==
  \E p \in Callers :
    /\ Loaded(p)
    /\ credentials.refresh_token # 0
    /\ credentials.expiry_date # 0
    /\ credFile = FileOf(credentials)
C11_WitnessAbsentValues ==
  \E p \in Callers :
    /\ Loaded(p)
    /\ credentials.refresh_token = 0
    /\ credentials.expiry_date = 0
    /\ credFile = FileOf(credentials)

\* ---------------------------------------------------------------------------
\* C12: when two authenticate() calls interleave on a near-expiry credential
\* with a refresh token and both refresh, then after both calls have returned
\* the credential file holds, whole, the record of one of the two refreshes,
\* and both calls have returned a client.
BothRefreshed ==
  /\ \A p \in Callers :
       /\ apc[p] = "done"
       /\ op[p] = "authenticate"
       /\ hist[p].refreshes = 1
       /\ outcome[p].kind = "returned"
C12_NoCorruption ==
  BothRefreshed =>
    /\ \A p \in Callers : outcome[p].client # 0
    /\ \E p \in Callers : credFile = FileOf(hist[p].refreshed)
\* The part of C12 that holds: both calls invoke the refresh endpoint and
\* both return the client.
C12_BothReturnClient ==
  BothRefreshed => \A p \in Callers : outcome[p].client = auth.id /\ auth.id # 0
C12_TornFile ==
  /\ BothRefreshed
  /\ ~JSONParseCredentials(credFile.text).ok

\* ---------------------------------------------------------------------------
\* C13: with an auth argument the process runs the interactive authorization
\* flow, exits 0 if it succeeded and 1 if it failed, and never starts the
\* server; without the argument the server is started on stdio only when
\* loadSavedCredentials() gave a client, and otherwise the process exits 1
\* without starting it.
WithAuthArgument == \E i \in DOMAIN argv : argv[i] = "auth"
LoadSettled == apc[1] = "done" /\ op[1] = "loadSavedCredentials"
LoadGaveClient == LoadSettled /\ outcome[1].kind = "returned" /\ outcome[1].client # 0
C13_State ==
  /\ WithAuthArgument =>
       /\ server = "none"
       /\ op[1] \in {NoValue, "performFullAuthentication"}
       /\ process.exited =>
            /\ apc[1] = "done"
            /\ process.code = (IF outcome[1].kind = "returned" THEN 0 ELSE 1)
  /\ ~WithAuthArgument =>
       /\ op[1] \in {NoValue, "loadSavedCredentials"}
       /\ server # "none" => LoadGaveClient
       /\ (process.exited /\ server = "none") => (LoadSettled /\ ~LoadGaveClient /\ process.code = 1)
\* The step main() takes once its call has settled.
C13_Step ==
  /\ (WithAuthArgument /\ apc[1] = "done" /\ ~process.exited) => process'.exited
  /\ (~WithAuthArgument /\ LoadSettled /\ ~LoadGaveClient /\ ~process.exited) =>
       (process' = Exited(1) /\ server' = "none")
  /\ (~WithAuthArgument /\ LoadGaveClient /\ server = "none") => server' = "connecting"
C13_WitnessServing == ~WithAuthArgument /\ server = "connected" /\ ~process.exited
C13_WitnessAuthorized == WithAuthArgument /\ process = Exited(0)

\* ---------------------------------------------------------------------------
\* C14: for every query over backslashes, single quotes and other characters,
\* searchFiles sends the filter fullText contains '<escaped>', where between
\* the opening and the closing quote every backslash and every quote of the
\* query follows an escaping backslash: no unescaped quote occurs there, and
\* un-escaping the body gives back the query.
\* Reading a filter body as the query grammar does: a backslash takes the
\* next character literally; a bare quote, or a backslash at the end, fails.
RECURSIVE Unescaped(_)
Unescaped(body) ==
  IF body = <<>> THEN [ok |-> TRUE, str |-> <<>>]
  ELSE IF Head(body) = "'" THEN [ok |-> FALSE, str |-> <<>>]
  ELSE IF Head(body) = "\\"
  THEN IF Len(body) < 2 THEN [ok |-> FALSE, str |-> <<>>]
       ELSE LET rest == Unescaped(SubSeq(body, 3, Len(body)))
            IN [ok |-> rest.ok, str |-> <<body[2]>> \o rest.str]
  ELSE LET rest == Unescaped(Tail(body))
       IN [ok |-> rest.ok, str |-> <<Head(body)>> \o rest.str]
SpecialCount(str) == Cardinality({i \in 1..Len(str) : str[i] \in {"\\", "'"}})
SentFilter == svcApi[1].q
FilterBody == SubSeq(SentFilter, 3, Len(SentFilter) - 1)
C14_FilterEscaped ==
  (svcFn = "searchFiles" /\ svcPc # "called") =>
    /\ Len(svcApi) = 1
    /\ svcApi[1].method = "files.list"
    /\ Len(SentFilter) >= 3
    /\ SentFilter[1] = "fullText contains "
    /\ SentFilter[2] = "'"
    /\ SentFilter[Len(SentFilter)] = "'"
    /\ Len(FilterBody) = Len(svcArg.query) + SpecialCount(svcArg.query)
    /\ Unescaped(FilterBody).ok
    /\ Unescaped(FilterBody).str = svcArg.query
\* A query that ends in a backslash followed by a quote has been sent.
C14_Witness ==
  /\ svcFn = "searchFiles"
  /\ svcPc = "done"
  /\ svcArg.query = <<"a", "\\", "'">>
  /\ FilterBody = <<"a", "\\", "\\", "\\", "'">>

\* ---------------------------------------------------------------------------
\* C15: getFileContent on a file whose mime type starts with
\* application/vnd.google-apps exports it (and never downloads it raw) with
\* the fixed target type: document to text/markdown, spreadsheet to text/csv,
\* presentation to text/plain, drawing to image/png, any other native type
\* to text/plain; the returned mimeType is the export type and the returned
\* content is a string.
MetadataArrived == svcFn = "getFileContent" /\ svcPc \in {"files.export", "files.get media", "done"}
NativeKind(mimeType) ==
  IF Len(mimeType) >= 1 /\ mimeType[1] = "application/vnd.google-apps"
  THEN (IF Len(mimeType) = 2 THEN mimeType[2] ELSE "other")
  ELSE "not native"
ExportTarget(kind) ==
  CASE kind = ".document" -> <<"text/", "markdown">>
    [] kind = ".spreadsheet" -> <<"text/", "csv">>
    [] kind = ".presentation" -> <<"text/", "plain">>
    [] kind = ".drawing" -> <<"image/png">>
    [] OTHER -> <<"text/", "plain">>
C15_NativeExported ==
  (MetadataArrived /\ NativeKind(svcLocal.fileMimeType) # "not native") =>
    /\ Len(svcApi) = 2
    /\ svcApi[2].method = "files.export"
    /\ svcApi[2].fileId = svcArg.fileId
    /\ svcApi[2].mimeType = ExportTarget(NativeKind(svcLocal.fileMimeType))
    /\ \A i \in 1..Len(svcApi) : svcApi[i].method = "files.get" => svcApi[i].alt # "media"
    /\ svcPc = "done" =>
         /\ svcResult.mimeType = svcApi[2].mimeType
         /\ svcResult.content.kind = "string"
C15_Witness ==
  /\ svcFn = "getFileContent"
  /\ svcPc = "done"
  /\ svcLocal.fileMimeType = <<"application/vnd.google-apps", ".spreadsheet">>
  /\ svcResult.mimeType = <<"text/", "csv">>

\* ---------------------------------------------------------------------------
\* C16: getFileContent on a file that is no native Workspace type downloads
\* the raw bytes and returns them as a UTF-8 string exactly when the mime type
\* starts with text/ or is application/json, and as binary otherwise; a file
\* without mime type counts as application/octet-stream and comes back binary.
TextualType(mimeType) ==
  \/ Len(mimeType) >= 1 /\ mimeType[1] = "text/"
  \/ mimeType = <<"application/json">>
C16_PlainDownloaded ==
  (MetadataArrived /\ NativeKind(svcLocal.fileMimeType) = "not native") =>
    /\ Len(svcApi) = 2
    /\ svcApi[2].method = "files.get"
    /\ svcApi[2].alt = "media"
    /\ svcApi[2].fileId = svcArg.fileId
    /\ svcPc = "done" =>
         /\ svcResult.mimeType =
              (IF svcLocal.fileMimeType = <<>> THEN <<"application/octet-stream">>
               ELSE svcLocal.fileMimeType)
         /\ (svcResult.content.kind = "string") <=> TextualType(svcLocal.fileMimeType)
         /\ (svcResult.content.kind = "Buffer") <=> ~TextualType(svcLocal.fileMimeType)
         /\ svcResult.content.kind = "string" =>
              /\ Len(svcResult.content.data) <= 3
              /\ \A i \in 1..Len(svcResult.content.data) :
                   svcResult.content.data[i] \in {"U+104", "U+105", "U+77", "U+97", "U+110", "U+FFFD"}
\* A JSON file has come back as a string, and a file without mime type as
\* binary application/octet-stream.
C16_Witness ==
  /\ svcFn = "getFileContent"
  /\ svcPc = "done"
  /\ svcLocal.fileMimeType = <<"application/json">>
  /\ svcResult.content = [kind |-> "string", data |-> <<"U+104", "U+105">>]
C16_WitnessNoMimeType ==
  /\ svcFn = "getFileContent"
  /\ svcPc = "done"
  /\ svcLocal.fileMimeType = <<>>
  /\ svcResult.mimeType = <<"application/octet-stream">>
  /\ svcResult.content = [kind |-> "Buffer", data |-> <<255, 104>>]

\* ---------------------------------------------------------------------------
\* C17 (as amended): the resource listing returns at most 10 resources, each
\* with the URI gdrive:///<fileId>; and the read of the URI the listing
\* produces for a file id fetches the content through getFileContent for
\* exactly that id and returns the mime type getFileContent reports (the
\* file's own type, application/octet-stream when it has none, and the
\* export type for a native Workspace file), with the content as it is when
\* it is text and base64-encoded when it is binary.
\* Reading base64 back: four characters give three bytes, less with padding.
SextetValue(ch) == CHOOSE n \in 0..63 : ch = "b64:" \o ToString(n)
RECURSIVE Base64Decoded(_)
Base64Decoded(text) ==
  IF Len(text) < 4 THEN <<>>
  ELSE LET v1 == SextetValue(text[1])
           v2 == SextetValue(text[2])
       IN IF text[3] = "=" THEN <<v1 * 4 + v2 \div 16>>
          ELSE LET v3 == SextetValue(text[3]) IN
               IF text[4] = "=" THEN <<v1 * 4 + v2 \div 16, (v2 % 16) * 16 + v3 \div 4>>
               ELSE <<v1 * 4 + v2 \div 16, (v2 % 16) * 16 + v3 \div 4,
                      (v3 % 4) * 64 + SextetValue(text[4])>>
                      \o Base64Decoded(SubSeq(text, 5, Len(text)))
ListedIds == {<<"f1">>, <<"f2">>, <<"f11">>}
C17_Listing ==
  (svcFn = "listResources" /\ svcPc = "done") =>
    /\ Len(svcResult.resources) <= 10
    /\ Len(svcResult.resources) = Len(svcLocal.files)
    /\ \A i \in 1..Len(svcResult.resources) :
         svcResult.resources[i].uri = <<"gdrive:///">> \o svcLocal.files[i].id
ReadOfListed(id) == svcFn = "readResource" /\ svcArg.uri = <<"gdrive:///">> \o id
ReadContent(id) ==
  ReadOfListed(id) =>
    /\ svcPc # "called" => (svcApi[1].method = "files.get" /\ svcApi[1].fileId = id)
    /\ \A i \in 1..Len(svcApi) : svcApi[i].fileId = id
    /\ svcPc = "done" =>
         /\ Len(svcResult.contents) = 1
         /\ svcResult.contents[1].uri = svcArg.uri
         /\ svcLocal.content.kind = "string" =>
              svcResult.contents[1].text = svcLocal.content.data
         /\ svcLocal.content.kind = "Buffer" =>
              /\ Len(svcResult.contents[1].text) = 4 * ((Len(svcLocal.content.data) + 2) \div 3)
              /\ Base64Decoded(svcResult.contents[1].text) = svcLocal.content.data
ReportedMimeType(fileMimeType) ==
  IF NativeKind(fileMimeType) # "not native" THEN ExportTarget(NativeKind(fileMimeType))
  ELSE IF fileMimeType = <<>> THEN <<"application/octet-stream">>
  ELSE fileMimeType
C17_ResourcesRoundTrip ==
  /\ C17_Listing
  /\ \A id \in ListedIds :
       /\ ReadContent(id)
       /\ (ReadOfListed(id) /\ svcPc = "done") =>
            svcResult.contents[1].mimeType = ReportedMimeType(svcLocal.fileMimeType)
\* C17 as stated: the read returns that file's mime type.
C17_Original ==
  /\ C17_Listing
  /\ \A id \in ListedIds :
       /\ ReadContent(id)
       /\ (ReadOfListed(id) /\ svcPc = "done") =>
            svcResult.contents[1].mimeType = svcLocal.fileMimeType
\* A listing of ten files has been returned, and a binary file listed as
\* gdrive:///f1 has been read as base64 ("Man" reads TWFu: 19, 22, 5, 46).
C17_Witness ==
  /\ svcFn = "readResource"
  /\ svcPc = "done"
  /\ svcArg.uri = <<"gdrive:///", "f1">>
  /\ svcLocal.content = [kind |-> "Buffer", data |-> <<77, 97, 110>>]
  /\ svcResult.contents[1].text = <<"b64:19", "b64:22", "b64:5", "b64:46">>
C17_WitnessListing ==
  /\ svcFn = "listResources"
  /\ svcPc = "done"
  /\ Len(svcResult.resources) = 10
  /\ svcResult.resources[10].uri = <<"gdrive:///", "f10">>

\* ---------------------------------------------------------------------------
\* C18: for every document body, getDocumentContent returns the
\* concatenation, in document order, of the contents of all text runs of all
\* paragraphs; what is no text run contributes nothing; a document without
\* body gives the empty string.
\* The text runs of a body, in document order, by their positions <<i, j>>.
RunPositions(content) ==
  {<<i, j>> \in (1..Len(content)) \X (1..3) :
     /\ content[i].kind = "paragraph"
     /\ j <= Len(content[i].elements)
     /\ content[i].elements[j].kind = "textRun"}
Before(p, q) == p[1] < q[1] \/ (p[1] = q[1] /\ p[2] < q[2])
\* The offset in the result at which the run at position p starts.
RECURSIVE LengthSum(_, _)
LengthSum(content, positions) ==
  IF positions = {} THEN 0
  ELSE LET p == CHOOSE q \in positions : TRUE
       IN Len(content[p[1]].elements[p[2]].content) + LengthSum(content, positions \ {p})
OffsetOf(content, p) ==
  LengthSum(content, {q \in RunPositions(content) : Before(q, p)})
C18_TextRunsInOrder ==
  (svcFn = "getDocumentContent" /\ svcPc = "done") =>
    LET content == svcLocal.body.content IN
    /\ ~svcLocal.body.present => svcResult = <<>>
    /\ Len(svcResult) = LengthSum(content, RunPositions(content))
    /\ \A p \in RunPositions(content) :
         LET run == content[p[1]].elements[p[2]].content IN
         \A k \in 1..Len(run) : svcResult[OffsetOf(content, p) + k] = run[k]
\* A body of a table and a paragraph that holds a text run after an inline
\* object has been read.
C18_Witness ==
  /\ svcFn = "getDocumentContent"
  /\ svcPc = "done"
  /\ svcLocal.body = Body(<<Table, Paragraph(<<InlineObject, TextRun(<<"b", "c">>)>>)>>)
  /\ svcResult = <<"b", "c">>
C18_WitnessNoBody ==
  /\ svcFn = "getDocumentContent"
  /\ svcPc = "done"
  /\ ~svcLocal.body.present

\* ---------------------------------------------------------------------------
\* C19 (as amended): for a document update with a single styled section
\* {text, style} the batch is, in this order: one delete of the prior content
\* range, one insert of the section text at index 1, then a text-style update
\* over the inserted text exactly when the style gives some run-level
\* attribute a value other than false or 0, then a paragraph-style update
\* exactly when it gives some paragraph-level attribute such a value (any
\* value for the three pagination hints), and nothing else; for
\* {text: "Hello", style: {bold: true}} the text-style field mask is exactly
\* bold and no paragraph-style update is emitted.
BatchSent == svcFn = "updateDocument" /\ svcPc \in {"documents.batchUpdate", "done"}
Batch == svcApi[2].requests
StyledSectionGiven == svcArg.content.kind = "section" /\ svcArg.content.hasStyle
OfKind(kind) == {i \in 1..Len(Batch) : Batch[i].kind = kind}
OverInsertedText(req) ==
  req.startIndex = 1 /\ req.endIndex = Len(svcArg.content.text) + 1
Set(v) == v \notin {"undefined", "false", "0"}
RunLevelSet(style) ==
  \E a \in {"bold", "italic", "underline", "strikethrough", "fontSize",
             "foregroundColor", "backgroundColor", "fontFamily"} : Set(style[a])
ParagraphLevelSet(style) ==
  \/ \E a \in {"alignment", "lineSpacing", "spaceAbove", "spaceBelow", "indentStart",
                "indentEnd", "indentFirstLine", "direction", "heading"} : Set(style[a])
  \/ \E a \in {"keepLinesTogether", "keepWithNext", "pageBreakBefore"} :
       style[a] # "undefined"
DeleteThenInsert ==
  /\ Len(svcApi) = 2
  /\ svcApi[2].method = "documents.batchUpdate"
  /\ Len(Batch) >= 2
  /\ OfKind("deleteContentRange") = {1}
  /\ Batch[1].startIndex = 1
  /\ Batch[1].endIndex = svcLocal.endIndex
  /\ OfKind("insertText") = {2}
  /\ Batch[2].startIndex = 1
  /\ Batch[2].text = svcArg.content.text
HelloBold ==
  (/\ svcArg.content.text = <<"H", "e", "l", "l", "o">>
   /\ svcArg.content.style = [NoStyle EXCEPT !["bold"] = "true"]) =>
    /\ Len(Batch) = 3
    /\ Batch[3].kind = "updateTextStyle"
    /\ Batch[3].fields = <<"bold">>
    /\ OfKind("updateParagraphStyle") = {}
C19_StyledSectionBatch ==
  (BatchSent /\ StyledSectionGiven) =>
    /\ DeleteThenInsert
    /\ OfKind("updateTextStyle") = (IF RunLevelSet(svcArg.content.style) THEN {3} ELSE {})
    /\ OfKind("updateParagraphStyle") =
         (IF ParagraphLevelSet(svcArg.content.style)
          THEN {IF RunLevelSet(svcArg.content.style) THEN 4 ELSE 3} ELSE {})
    /\ \A i \in 3..Len(Batch) :
         /\ Batch[i].kind \in {"updateTextStyle", "updateParagraphStyle"}
         /\ OverInsertedText(Batch[i])
    /\ HelloBold
\* C19 as stated: the text-style update follows the insert for every styled
\* section.
C19_Original ==
  (BatchSent /\ StyledSectionGiven) =>
    /\ DeleteThenInsert
    /\ Len(Batch) >= 3
    /\ Batch[3].kind = "updateTextStyle"
    /\ OverInsertedText(Batch[3])
    /\ HelloBold
C19_Witness ==
  /\ BatchSent
  /\ svcPc = "done"
  /\ svcArg.content = StyledSection(<<"H", "e", "l", "l", "o">>, [NoStyle EXCEPT !["bold"] = "true"])
  /\ svcLocal.endIndex = 12
  /\ Batch = <<DeleteContentRange(1, 12), InsertText(1, <<"H", "e", "l", "l", "o">>),
               UpdateTextStyle(1, 6, [f \in {"bold"} |-> "true"], <<"bold">>)>>
\* A section whose style is an alignment only: no text-style update.
C19_WitnessParagraphOnly ==
  /\ BatchSent
  /\ svcArg.content.style = [NoStyle EXCEPT !["alignment"] = "CENTER"]
  /\ Len(Batch) = 3
  /\ Batch[3].kind = "updateParagraphStyle"

\* ---------------------------------------------------------------------------
\* C20: for every style descriptor, the run-level field mask and the
\* paragraph-level field mask that style application produces together list
\* exactly the attributes the descriptor specifies (those specified as false
\* or 0 included) and no others, each attribute in exactly one of the two
\* masks, and the style object sent carries a value for exactly the masked
\* fields.
MaskOf(kind) ==
  UNION {{Batch[i].fields[k] : k \in 1..Len(Batch[i].fields)} \ {","} : i \in OfKind(kind)}
SentFieldsOf(kind) == UNION {DOMAIN Batch[i].style : i \in OfKind(kind)}
MaskName(a) ==
  CASE a = "fontFamily" -> "weightedFontFamily"
    [] a = "heading" -> "namedStyleType"
    [] OTHER -> a
Specified(style) == {a \in DOMAIN style : style[a] # "undefined"}
C20_MasksExact ==
  (BatchSent /\ StyledSectionGiven) =>
    /\ MaskOf("updateTextStyle") \cup MaskOf("updateParagraphStyle")
         = {MaskName(a) : a \in Specified(svcArg.content.style)}
    /\ MaskOf("updateTextStyle") \cap MaskOf("updateParagraphStyle") = {}
    /\ SentFieldsOf("updateTextStyle") = MaskOf("updateTextStyle")
    /\ SentFieldsOf("updateParagraphStyle") = MaskOf("updateParagraphStyle")
\* What holds of the masks: they list specified attributes only, each in one
\* mask, and the style objects carry exactly the masked fields.
C20_MasksWithinSpecified ==
  (BatchSent /\ StyledSectionGiven) =>
    /\ MaskOf("updateTextStyle") \cup MaskOf("updateParagraphStyle")
         \subseteq {MaskName(a) : a \in Specified(svcArg.content.style)}
    /\ MaskOf("updateTextStyle") \cap MaskOf("updateParagraphStyle") = {}
    /\ SentFieldsOf("updateTextStyle") = MaskOf("updateTextStyle")
    /\ SentFieldsOf("updateParagraphStyle") = MaskOf("updateParagraphStyle")
\* bold: false and spaceAbove: 0 were specified and no style update was sent.
C20_DroppedAttributes ==
  /\ BatchSent
  /\ svcArg.content.style = [NoStyle EXCEPT !["bold"] = "false", !["spaceAbove"] = "0"]
  /\ Len(Batch) = 2

(***************************************************************************)
(* Properties of the Sheets adapter, checked under SpecSheets.             *)
(***************************************************************************)
DimensionSent == svcFn = "sheets_dimension_operation" /\ Len(svcApi) = 1
DimensionKeyOf(operation) ==
  CASE operation = "INSERT" -> "insertDimension"
    [] operation = "DELETE" -> "deleteDimension"
    [] OTHER -> "updateDimensionProperties"
\* The request key and the size field are as stated.
C21_KeyAndSize ==
  DimensionSent =>
    /\ svcApi[1].key = DimensionKeyOf(svcArg.operation.str)
    /\ svcApi[1].hasSize <=> (svcArg.operation.str = "RESIZE")
\* The end index is the given one unless that is absent or 0.
C21_EndIndexUnlessZero ==
  DimensionSent =>
    svcApi[1].range.endIndex =
      IF svcArg.endIndex.type = "number" /\ svcArg.endIndex.num # 0
      THEN svcArg.endIndex ELSE Num(svcArg.startIndex.num + 1)
\* C21: for every dimensionOperation input, the range sent has endIndex equal
\* to the given endIndex when one is given and startIndex + 1 when it is
\* omitted; the request key is insertDimension for INSERT, deleteDimension
\* for DELETE and updateDimensionProperties for RESIZE, and a size field is
\* present only for RESIZE.
C21_DimensionRequest ==
  DimensionSent =>
    /\ svcApi[1].range.endIndex =
         IF svcArg.endIndex.type = "number"
         THEN svcArg.endIndex ELSE Num(svcArg.startIndex.num + 1)
    /\ svcApi[1].key = DimensionKeyOf(svcArg.operation.str)
    /\ svcApi[1].hasSize <=> (svcArg.operation.str = "RESIZE")
\* A DELETE of rows was asked from 0 to 0 and a request was sent.
C21_GivenZero ==
  /\ DimensionSent
  /\ svcArg.operation.str = "DELETE"
  /\ svcArg.startIndex = Num(0)
  /\ svcArg.endIndex = Num(0)

\* ---------------------------------------------------------------------------
\* C22: a sheets_dimension_operation call with operation RESIZE and no size
\* is not rejected by validation or by the adapter: the batch-update request
\* is sent to the external API with the key size present and undefined.
ResizeWithoutSize ==
  /\ svcFn = "sheets_dimension_operation"
  /\ svcPc # "called"
  /\ svcArg.operation = Str("RESIZE")
  /\ svcArg.size = Undefined
FixedGridRange ==
  [sheetId |-> 0, startRowIndex |-> 0, endRowIndex |-> 1000,
   startColumnIndex |-> 0, endColumnIndex |-> 26]
GridSent == svcFn \in {"formatCells", "mergeCells"} /\ Len(svcApi) = 1
C23_FixedGridRange ==
  GridSent =>
    /\ svcApi[1].range = FixedGridRange
    /\ svcApi[1].spreadsheetId = svcArg.spreadsheetId
    /\ svcFn = "formatCells" =>
         /\ svcApi[1].key = "repeatCell"
         /\ svcApi[1].userEnteredFormat = svcArg.format
         /\ svcApi[1].fields = "userEnteredFormat"
    /\ svcFn = "mergeCells" =>
         /\ svcApi[1].key = "mergeCells"
         /\ svcApi[1].mergeType = "MERGE_ALL"
\* Cells were formatted, and cells were merged, for a range that names a
\* sheet and cells.
C23_Witness ==
  /\ GridSent
  /\ svcFn = "formatCells"
  /\ svcArg.range = <<"S", "2", "!", "C", "3">>
C23_WitnessMerge ==
  /\ GridSent
  /\ svcFn = "mergeCells"
  /\ svcArg.range = <<"S", "1", "!", "A", "1", ":", "B", "2">>

(***************************************************************************)
(* Frame and agreement properties of the AuthService.                      *)
(***************************************************************************)
Stored == <<auth, credentials, credFile>>
\* What caller p's step is, told from the states before and after it.
LoadSucceeds(p) == apc[p] = "readOAuth" /\ hist'[p].loadResult = "client"
RefreshSucceeds(p) == apc[p] = "refreshing" /\ hist'[p].refreshed # Null
FullAuthorization(p) == apc[p] \in {"fullReadOAuth", "fullFlow"}
SaveWrites(p) == apc[p] \in {"saving", "writing"}
RefreshFails(p) ==
  /\ apc[p] = "refreshing"
  /\ outcome'[p] = Threw("REFRESH_FAILED")
  /\ hist'[p].saveError = NoValue
LoadFails(p) ==
  /\ apc[p] \in {"idle", "readCreds", "readOAuth"}
  /\ apc'[p] = "done"
  /\ hist'[p].loadResult \in {"null", "threw"}
ReturnsNotExpiring(p) ==
  /\ apc[p] \in {"idle", "afterLoad"}
  /\ apc'[p] = "done"
  /\ op'[p] = "authenticate"
  /\ outcome'[p].kind = "returned"
C24_Step ==
  /\ credentials' # credentials =>
       \E p \in Callers : LoadSucceeds(p) \/ RefreshSucceeds(p) \/ FullAuthorization(p)
  /\ Stored' # Stored =>
       \E p \in Callers :
         LoadSucceeds(p) \/ RefreshSucceeds(p) \/ FullAuthorization(p) \/ SaveWrites(p)
  /\ \A p \in Callers :
       (RefreshFails(p) \/ LoadFails(p) \/ ReturnsNotExpiring(p)) => Stored' = Stored
\* C24: the stored credentials change only in a load from disk, a successful
\* token refresh or a full re-authorization; a failed refresh, a failed load
\* and an authenticate() that returns on the not-yet-expiring path leave the
\* stored credentials, the held client and the credential file unchanged.
C24_CredentialsFrame == [][C24_Step]_vars
\* A refresh has failed on a held record, after an earlier load.
C24_Witness ==
  \E p \in Callers :
    /\ apc[p] = "done"
    /\ outcome[p] = Threw("REFRESH_FAILED")
    /\ hist[p].saveError = NoValue
    /\ hist[p].refreshes = 1
    /\ ~credentials.isNull
    /\ auth.id # 0
C24_WitnessNotExpiring ==
  \E p \in Callers :
    /\ apc[p] = "done"
    /\ op[p] = "authenticate"
    /\ outcome[p].kind = "returned"
    /\ hist[p].refreshes = 0
    /\ hist[p].entryHeld

\* ---------------------------------------------------------------------------
\* C25: whenever no AuthService operation is in flight, the credentials the
\* held client carries, the stored credentials record and the content of the
\* credential file agree (when a client or a record is held at all).
NoneInFlight == \A p \in Callers : apc[p] \in {"idle", "done"}
SomethingHeld == auth.id # 0 \/ ~credentials.isNull
C25_Agreement ==
  (NoneInFlight /\ SomethingHeld) =>
    /\ auth.id # 0
    /\ auth.credentials = credentials
    /\ credFile = FileOf(credentials)
\* The two ways the agreement is lost: a consent flow that failed after a
\* load has left a client without credentials next to the loaded record, and
\* a save that failed after a refresh has left the file behind the record.
C25_BareClientHeld ==
  /\ NoneInFlight
  /\ \E p \in Callers : outcome[p] = Threw("AUTH_FAILED")
  /\ auth.id # 0
  /\ auth.credentials = EmptyCredentials
  /\ ~credentials.isNull
C25_FileBehind ==
  /\ NoneInFlight
  /\ \E p \in Callers : hist[p].saveError # NoValue /\ op[p] = "authenticate"
  /\ auth.credentials = credentials
  /\ credFile.state = "present"
  /\ credFile # FileOf(credentials)

(***************************************************************************)
(* Properties of the running server, checked under SpecServe.              *)
(***************************************************************************)
\* An authenticate() has run to its return.
AuthenticateReturned ==
  \E p \in Callers :
    op[p] = "authenticate" /\ apc[p] = "done" /\ outcome[p].kind = "returned"
\* C26: in every tool call that reaches an adapter, authenticate() has run
\* before the external API request is sent, so the request is not sent on a
\* token at or within five minutes of expiry that was not refreshed.
C26_AuthenticateBeforeRequest ==
  apiCalls > 0 =>
    /\ AuthenticateReturned
    /\ ExpiryValid(credentials, now) \/ \E p \in Callers : hist[p].refreshes > 0
\* A request has been sent while the held record, which has a refresh token,
\* is within five minutes of its expiry, and nothing was refreshed.
C26_SentNearExpiry ==
  /\ dpc = "awaiting"
  /\ apiCalls = 1
  /\ credentials.expiry_date # 0
  /\ ~ExpiryValid(credentials, now)
  /\ HasRefreshToken(credentials)
  /\ \A p \in Callers : hist[p].refreshes = 0

(***************************************************************************)
(* The declared schemas against the validation, checked under SpecDeclared.*)
(***************************************************************************)
ConformingCall ==
  /\ dpc # "idle"
  /\ request.name \in Catalog
  /\ DeclaredConforms(request.name, request.arguments)
Delivered ==
  /\ thrown # ZodError
  /\ adapterCalls = 1
  /\ \A k \in DOMAIN DeclaredSchema[request.name] :
       ArgOf(request.arguments, k) # "undefined" =>
         k \in DOMAIN parsed /\ parsed[k] = ArgOf(request.arguments, k)
\* The tools other than docs_create and docs_update_content are as stated.
C27_OtherTools ==
  (ConformingCall /\ request.name \notin {"docs_create", "docs_update_content"}) => Delivered
\* C27: for every tool of the catalog, an argument record that conforms to
\* the schema the tool list declares passes the dispatcher's validation, and
\* the arguments the declared schema names are the ones the adapter gets.
C27_DeclaredIsValidated == ConformingCall => Delivered
\* docs_update_content called as declared is rejected; docs_create called
\* with content reaches the adapter without it.
C27_UpdateRejected ==
  /\ ConformingCall
  /\ request.name = "docs_update_content"
  /\ thrown = ZodError
  /\ adapterCalls = 0
C27_CreateContentDropped ==
  /\ ConformingCall
  /\ request.name = "docs_create"
  /\ ArgOf(request.arguments, "content") = "object"
  /\ adapterCalls = 1
  /\ "content" \notin DOMAIN parsed

(***************************************************************************)
(* The delete of the prior content, checked under SpecDocUpdate.           *)
(***************************************************************************)
\* The delete is the first request, the only delete, and runs from 1 to the
\* end index read from the document (1 when the document has no content).
C28_DeleteFirst ==
  BatchSent =>
    /\ Batch[1].kind = "deleteContentRange"
    /\ Batch[1].startIndex = 1
    /\ Batch[1].endIndex = svcLocal.endIndex
    /\ \A i \in 2..Len(Batch) : Batch[i].kind # "deleteContentRange"
\* C28: for every current document state, a document without body content
\* included, the delete request covers a non-empty range from index 1 to the
\* document's end index and is the first request of the batch, before any
\* insert.
C28_DeleteNonEmptyFirst ==
  BatchSent =>
    /\ Batch[1].kind = "deleteContentRange"
    /\ Batch[1].startIndex = 1
    /\ Batch[1].endIndex = svcLocal.endIndex
    /\ Batch[1].startIndex < Batch[1].endIndex
    /\ \A i \in 2..Len(Batch) : Batch[i].kind # "deleteContentRange"
\* A batch was sent for a document without content: its delete is empty.
C28_EmptyDelete ==
  /\ BatchSent
  /\ svcLocal.endIndex = 1
  /\ Batch[1] = DeleteContentRange(1, 1)
  /\ Len(Batch) > 1

(***************************************************************************)
(* Records without expiry, checked under SpecAuth.                         *)
(***************************************************************************)
CheckedWithoutExpiry(p) ==
  /\ op[p] = "authenticate"
  /\ hist[p].checked
  /\ hist[p].checkedCreds.expiry_date = 0
\* C29: a credential record with no expiry_date is never treated as valid:
\* authenticate() takes the refresh path on every call, calling the refresh
\* endpoint when the record has a refresh token and failing with
\* NO_REFRESH_TOKEN when it has none.
C29_NoExpiryIsNotValid ==
  \A p \in Callers :
    CheckedWithoutExpiry(p) =>
      IF hist[p].checkedCreds.refresh_token # 0
      THEN hist[p].refreshes = 1
      ELSE /\ hist[p].refreshes = 0
           /\ apc[p] = "done"
           /\ outcome[p] = Threw("NO_REFRESH_TOKEN")
\* A record without expiry was loaded in the call and refreshed; one without
\* refresh token was loaded and the call failed.
C29_Witness ==
  \E p \in Callers :
    /\ CheckedWithoutExpiry(p)
    /\ hist[p].loadResult = "client"
    /\ hist[p].checkedCreds.refresh_token # 0
    /\ apc[p] = "done"
    /\ outcome[p].kind = "returned"
C29_WitnessNoRefreshToken ==
  \E p \in Callers :
    /\ CheckedWithoutExpiry(p)
    /\ hist[p].loadResult = "client"
    /\ hist[p].checkedCreds.refresh_token = 0
    /\ outcome[p] = Threw("NO_REFRESH_TOKEN")

(***************************************************************************)
(* The body sections of a content descriptor, checked under                *)
(* SpecDocDescriptor.                                                      *)
(***************************************************************************)
BodyGiven ==
  /\ BatchSent
  /\ svcArg.content.kind = "descriptor"
  /\ svcArg.content.hasBody
  /\ svcArg.content.body # <<>>
GivenBody == svcArg.content.body
\* The positions in the batch of the inserts into the body; the cover page's
\* inserts come first, then one per section.
BodyInserts ==
  SelectSeq([i \in 1..Len(Batch) |-> i],
            LAMBDA i : Batch[i].kind = "insertText" /\ Batch[i].segment = "body")
CoverInserts ==
  IF svcArg.content.hasCoverPage
  THEN 1 + (IF svcArg.content.coverPage.subtitle # <<>> THEN 1 ELSE 0)
         + (IF svcArg.content.coverPage.date # <<>> THEN 1 ELSE 0)
  ELSE 0
SectionInsert(j) == BodyInserts[CoverInserts + j]
SectionEnd(j) == IF j = Len(GivenBody) THEN Len(Batch) ELSE SectionInsert(j + 1) - 1
\* The length of the text the first i requests insert into the segments segs.
RECURSIVE InsertedBy(_, _)
InsertedBy(i, segs) ==
  IF i = 0 THEN 0
  ELSE InsertedBy(i - 1, segs)
         + (IF Batch[i].kind = "insertText" /\ Batch[i].segment \in segs
            THEN Len(Batch[i].text) ELSE 0)
Segments == {"body", "header", "first_header", "footer"}
SectionsInOrder ==
  /\ Len(BodyInserts) = CoverInserts + Len(GivenBody)
  /\ \A j \in 1..Len(GivenBody) : Batch[SectionInsert(j)].text = GivenBody[j].text
  /\ \A j \in 1..(Len(GivenBody) - 1) :
       Batch[SectionInsert(j + 1)].startIndex =
         Batch[SectionInsert(j)].startIndex + Len(GivenBody[j].text)
StyleRangesCoverSection ==
  \A j \in 1..Len(GivenBody) :
    \A i \in (SectionInsert(j) + 1)..SectionEnd(j) :
      /\ Batch[i].kind \in {"updateTextStyle", "updateParagraphStyle"}
      /\ Batch[i].startIndex = Batch[SectionInsert(j)].startIndex
      /\ Batch[i].endIndex = Batch[i].startIndex + Len(GivenBody[j].text)
\* What the code does: the first index counts the text of every earlier
\* insert, those into headers and footer included.
C30_CountsEveryInsert ==
  BodyGiven =>
    /\ SectionsInOrder
    /\ StyleRangesCoverSection
    /\ Batch[SectionInsert(1)].startIndex = 1 + InsertedBy(SectionInsert(1) - 1, Segments)
\* C30: the body sections of a content descriptor are inserted in their
\* given order at contiguous body indices: the first at 1 plus the length of
\* the text earlier requests of the batch insert into the body (text inserted
\* into header and footer segments not counted), each later one at the
\* previous index plus the previous section's text length, and every style
\* range of a section covers exactly that section's text.
C30_BodySectionsContiguous ==
  BodyGiven =>
    /\ SectionsInOrder
    /\ StyleRangesCoverSection
    /\ Batch[SectionInsert(1)].startIndex = 1 + InsertedBy(SectionInsert(1) - 1, {"body"})
\* A body was given with a footer and no cover page: the first section is
\* inserted at 1 plus the footer's length.
C30_FooterCounted ==
  /\ BodyGiven
  /\ ~svcArg.content.hasCoverPage
  /\ ~svcArg.content.hasHeaders
  /\ svcArg.content.footer = <<"F", "t">>
  /\ Batch[SectionInsert(1)].startIndex = 3

====
